---- MODULE Spec2Model ----
(***************************************************************************)
(* A model of the diet-coaching chatbot backend (src/server):              *)
(*   - the MealStore operations of services/meal_service.py, acting on     *)
(*     the tables meals and meal_items;                                    *)
(*   - the conversation pipeline of services/chat_service.py;              *)
(*   - the intent classifier of ai/prompts/classifier.py.                  *)
(*                                                                         *)
(* Text is modelled as a sequence of one-character strings, so that        *)
(* str.lower(), str.strip() and the substring test `a in b` are computed   *)
(* character by character as Python computes them.                         *)
(*                                                                         *)
(* Numbers: a food's quantity is counted in halves of a serving (the       *)
(* value 3 stands for 1.5 servings) and its macros in tenths of a gram, so *)
(* that round() is computed on exact halves, with Python's rounding of a   *)
(* tie to the even neighbour.                                              *)
(***************************************************************************)
EXTENDS Integers, Sequences, FiniteSets, TLC

VARIABLES
    meals,          \* table meals, in insertion (created_at) order
    meal_items,     \* table meal_items, in insertion order
    nextMealId,     \* the id the store gives the next meals row
    nextItemId,     \* the id the store gives the next meal_items row
    chat_messages,  \* table chat_messages, in insertion (created_at) order
    nextMessageId,  \* the id the store gives the next chat_messages row
    turn            \* the request POST /message in progress: where
                    \* process_message stands, and its local variables

storeVars == <<meals, meal_items, nextMealId, nextItemId>>

turnVars == <<chat_messages, nextMessageId, turn>>

vars == <<meals, meal_items, nextMealId, nextItemId, chat_messages, nextMessageId, turn>>

(***************************************************************************)
(* Bounds of the model                                                     *)
(***************************************************************************)
\* meals rows the store may create in one behaviour
MaxMealRows == 2
\* meal_items rows the store may create in one behaviour
MaxItemRows == 3
\* foods submitted by one Log call
MaxFoods == 2
\* chat_messages rows the store may create in one behaviour
MaxMessages == 3
\* chat_messages rows the two chat surfaces may create in one behaviour
MaxHistoryRows == 4
\* tool calls in one response of the model
MaxToolCalls == 2

(***************************************************************************)
(* Text                                                                    *)
(***************************************************************************)
UpperChars == <<"A", "B", "C", "D", "E", "F", "G", "H", "I", "J", "K", "L", "M",
                "N", "O", "P", "Q", "R", "S", "T", "U", "V", "W", "X", "Y", "Z">>
LowerChars == <<"a", "b", "c", "d", "e", "f", "g", "h", "i", "j", "k", "l", "m",
                "n", "o", "p", "q", "r", "s", "t", "u", "v", "w", "x", "y", "z">>

\* the lower-case letter of each upper-case letter
LowerMap ==
    [c \in {UpperChars[i] : i \in 1..Len(UpperChars)} |->
        LowerChars[CHOOSE i \in 1..Len(UpperChars) : UpperChars[i] = c]]

\* str.lower() on one character
LowerChar(c) == IF c \in DOMAIN LowerMap THEN LowerMap[c] ELSE c

\* str.lower()
Lower(s) == [i \in 1..Len(s) |-> LowerChar(s[i])]

\* Python's `sub in s` on strings
Contains(sub, s) ==
    \E i \in 0..(Len(s) - Len(sub)) : SubSeq(s, i + 1, i + Len(sub)) = sub

\* Python's round(n / d) for d > 0: a tie goes to the even neighbour
PyRound(n, d) ==
    LET q == n \div d
        r == n % d
    IN  IF 2 * r < d THEN q
        ELSE IF 2 * r > d THEN q + 1
        ELSE IF q % 2 = 0 THEN q ELSE q + 1

\* the characters str.strip() takes off
Whitespace == {" ", "\t", "\n", "\r", "\f"}

RECURSIVE LStrip(_)
LStrip(s) == IF s # <<>> /\ s[1] \in Whitespace THEN LStrip(Tail(s)) ELSE s

RECURSIVE RStrip(_)
RStrip(s) ==
    IF s # <<>> /\ s[Len(s)] \in Whitespace THEN RStrip(SubSeq(s, 1, Len(s) - 1)) ELSE s

\* Strip that trims the head of the text only
StripLeadingOnly(s) == LStrip(s)

\* str.strip()
Strip(s) == RStrip(LStrip(s))

Max(a, b) == IF a >= b THEN a ELSE b

RECURSIVE SumCalories(_)
SumCalories(s) == IF s = <<>> THEN 0 ELSE s[1].calories + SumCalories(Tail(s))

Names(s) == [i \in 1..Len(s) |-> s[i].name]

(***************************************************************************)
(* Inputs                                                                  *)
(***************************************************************************)
MealTypes == {"breakfast", "lunch", "dinner", "snack"}

MEAL_TYPE_LABELS == [t \in MealTypes |->
    CASE t = "breakfast" -> "achim"
      [] t = "lunch"     -> "jeomsim"
      [] t = "dinner"    -> "jeonyeok"
      [] t = "snack"     -> "gansik"]

rice    == <<"r", "i", "c", "e">>
Rice    == <<"R", "i", "c", "e">>
ric     == <<"r", "i", "c">>
egg     == <<"e", "g", "g">>
NoText  == <<>>

\* the names a Delete or an Update call may look for
FoodNames == {Rice, ric, egg}

\* the foods a Log call may submit: name, quantity (halves of a serving),
\* calories per serving, macros per serving (tenths of a gram)
Menu == {
    [name |-> rice, quantity |-> 2, calories |-> 5, protein |-> 5,  carbs |-> 7, fat |-> 0],
    [name |-> Rice, quantity |-> 1, calories |-> 5, protein |-> 5,  carbs |-> 7, fat |-> 0],
    [name |-> ric,  quantity |-> 3, calories |-> 1, protein |-> 1,  carbs |-> 0, fat |-> 3] }

\* the replacement food an Update call may submit
NewFoods == {
    [name |-> Rice, calories |-> 4, protein |-> 0, carbs |-> 9, fat |-> 0] }

NoFood == [name |-> NoText, calories |-> 0, protein |-> 0, carbs |-> 0, fat |-> 0]

FoodLists == UNION { [1..n -> Menu] : n \in 1..MaxFoods }

Users == {"u1"}
Dates == {"2024-05-01"}
OpMealTypes == {"breakfast", "lunch"}

(***************************************************************************)
(* The store and the return values of the MealStore operations             *)
(***************************************************************************)
\* the store as a value: the handle `db` the operations are given
Store(ms, its, nm, ni) ==
    [meals |-> ms, meal_items |-> its, nextMealId |-> nm, nextItemId |-> ni]

\* the store as it is now
DB == Store(meals, meal_items, nextMealId, nextItemId)

\* {"success": .., "message": ..}: the message is kept as its kind and the
\* values formatted into it (food names, date and meal label, kcal, and the
\* per-meal summary lines of a Query)
Msg(ok, kind, names, label, kcal) ==
    [success |-> ok, kind |-> kind, names |-> names, label |-> label, kcal |-> kcal,
     lines |-> <<>>, raised |-> FALSE]

\* what one call of an operation does: the store after it and its return value
Outcome(db, r) == [db |-> db, result |-> r]

\* a call that an exception leaves: no return value, the store as the call
\* had left it when the exception was raised
Raise(db, exception) ==
    Outcome(db, [Msg(FALSE, exception, <<>>, <<>>, 0) EXCEPT !.raised = TRUE])

\* what .maybe_single().execute() gives when no row matches, which is up to
\* the client library: the value None, or a response whose data is None
MaybeSingleEmpty == {"None", "response"}

\* `meal = meal_result.data; if not meal: return <not found>` on a select
\* that matched no row: reading .data of None raises AttributeError
NoMeal(db, empty, meal_date, meal_type) ==
    IF empty = "None"
    THEN Raise(db, "AttributeError")
    ELSE Outcome(db, Msg(FALSE, "no_meal", <<>>,
                         <<meal_date, MEAL_TYPE_LABELS[meal_type]>>, 0))

\* SelectMeals with the date and the meal type compared with each other's
\* column: no row ever matches
SelectMealsSwapped(db, user, date, mt) ==
    SelectSeq(db.meals, LAMBDA m : m.user_id = user /\ m.date = mt /\ m.meal_type = date)

\* SelectMeals without .eq("user_id", user_id)
SelectMealsOfAnyUser(db, user, date, mt) ==
    SelectSeq(db.meals, LAMBDA m : m.date = date /\ m.meal_type = mt)

\* db.table("meals").select(..).eq(user_id).eq(date).eq(meal_type)
SelectMeals(db, user, date, mt) ==
    SelectSeq(db.meals, LAMBDA m : m.user_id = user /\ m.date = date /\ m.meal_type = mt)

\* the rows of meal_items of one meal (the embedded resource meal_items (...))
ItemsOf(db, meal_id) == SelectSeq(db.meal_items, LAMBDA it : it.meal_id = meal_id)

\* db.table("meals").delete().eq("id", ..) on the meals table
WithoutMeal(ms, meal_id) == SelectSeq(ms, LAMBDA m : m.id # meal_id)

\* the rows of meal_items that reference a deleted meal go with it
CascadeItems(its, meal_id) == SelectSeq(its, LAMBDA it : it.meal_id # meal_id)

\* db.table("meal_items").delete().eq("id", ..)
WithoutItem(its, item_id) == SelectSeq(its, LAMBDA it : it.id # item_id)

\* db.table("meals").update({"total_calories": ..}).eq("id", ..)
SetTotal(ms, meal_id, total) ==
    [i \in 1..Len(ms) |->
        IF ms[i].id = meal_id THEN [ms[i] EXCEPT !.total_calories = total] ELSE ms[i]]

(***************************************************************************)
(* services/meal_service.py                                                *)
(***************************************************************************)
\* processed_foods with the nutrients of one serving, whatever the quantity
processed_foodsUnscaled(foods) ==
    [i \in 1..Len(foods) |->
        [name     |-> foods[i].name,
         quantity |-> foods[i].quantity,
         calories |-> foods[i].calories,
         protein  |-> foods[i].protein,
         carbs    |-> foods[i].carbs,
         fat      |-> foods[i].fat]]

\* nutrients scaled by quantity
processed_foods(foods) ==
    [i \in 1..Len(foods) |->
        [name     |-> foods[i].name,
         quantity |-> foods[i].quantity,
         calories |-> PyRound(foods[i].calories * foods[i].quantity, 2),
         protein  |-> PyRound(foods[i].protein * foods[i].quantity, 2),
         carbs    |-> PyRound(foods[i].carbs * foods[i].quantity, 2),
         fat      |-> PyRound(foods[i].fat * foods[i].quantity, 2)]]

\* ItemRows that numbers the rows' meal one too high
ItemRowsOfNextMeal(meal_id, fs, firstId) ==
    [i \in 1..Len(fs) |->
        [id        |-> firstId + i - 1,
         meal_id   |-> meal_id + 1,
         name      |-> fs[i].name,
         calories  |-> fs[i].calories,
         protein_g |-> fs[i].protein,
         carbs_g   |-> fs[i].carbs,
         fat_g     |-> fs[i].fat,
         quantity  |-> <<fs[i].quantity, "inbun">>]]

\* the rows inserted into meal_items
ItemRows(meal_id, fs, firstId) ==
    [i \in 1..Len(fs) |->
        [id        |-> firstId + i - 1,
         meal_id   |-> meal_id,
         name      |-> fs[i].name,
         calories  |-> fs[i].calories,
         protein_g |-> fs[i].protein,
         carbs_g   |-> fs[i].carbs,
         fat_g     |-> fs[i].fat,
         quantity  |-> <<fs[i].quantity, "inbun">>]]

\* the lower-cased names of a meal's items
existing_names(db, meal_id) ==
    LET items == ItemsOf(db, meal_id)
    IN  { Lower(items[i].name) : i \in 1..Len(items) }

\* new_foods comparing the names as submitted, not lower-cased
new_foodsCaseSensitive(processed, names) ==
    SelectSeq(processed, LAMBDA f : f.name \notin names)

\* the submitted foods whose name is not among them
new_foods(processed, names) ==
    SelectSeq(processed, LAMBDA f : Lower(f.name) \notin names)

\* the total written back by a Log that adds to an existing meal
LogTotal(meal, new_calories) == meal.total_calories + new_calories

log_meal_directly(db, user_id, meal_type, meal_date, foods) ==
    LET processed == processed_foods(foods)
        new_items_calories == SumCalories(processed)
        existing == SelectMeals(db, user_id, meal_date, meal_type)
    IN  IF Len(existing) = 1
        THEN \* maybe_single() gave one row
            LET meal == existing[1]
                nf == new_foods(processed, existing_names(db, meal.id))
                new_calories == SumCalories(nf)
            IN  IF nf = <<>>
                THEN Outcome(db, Msg(TRUE, "already_recorded", Names(processed), <<>>, 0))
                ELSE Outcome(
                        Store(SetTotal(db.meals, meal.id, LogTotal(meal, new_calories)),
                              db.meal_items \o ItemRows(meal.id, nf, db.nextItemId),
                              db.nextMealId,
                              db.nextItemId + Len(nf)),
                        Msg(TRUE, "logged", Names(nf), <<>>, new_calories))
        ELSE \* no row, or the select raised: existing_meal = None
            Outcome(
                Store(Append(db.meals,
                        [id |-> db.nextMealId, user_id |-> user_id, date |-> meal_date,
                         meal_type |-> meal_type, total_calories |-> new_items_calories]),
                      db.meal_items \o ItemRows(db.nextMealId, processed, db.nextItemId),
                      db.nextMealId + 1,
                      db.nextItemId + Len(processed)),
                Msg(TRUE, "logged", Names(processed), <<>>, new_items_calories))

\* one summary line per meal
SummaryLines(db, ms) ==
    [i \in 1..Len(ms) |->
        [label |-> MEAL_TYPE_LABELS[ms[i].meal_type],
         items |-> Names(ItemsOf(db, ms[i].id)),
         kcal  |-> ms[i].total_calories]]

RECURSIVE SumTotals(_)
SumTotals(ms) == IF ms = <<>> THEN 0 ELSE ms[1].total_calories + SumTotals(Tail(ms))

get_meals_data(db, user_id, meal_date, meal_type) ==
    LET found == SelectSeq(db.meals, LAMBDA m :
                    /\ m.user_id = user_id
                    /\ m.date = meal_date
                    /\ (meal_type # "all" => m.meal_type = meal_type))
    IN  IF found = <<>>
        THEN Outcome(db, Msg(TRUE, "no_records", <<>>, <<meal_date>>, 0))
        ELSE Outcome(db, [Msg(TRUE, "meals", <<>>, <<meal_date>>, SumTotals(found))
                            EXCEPT !.lines = SummaryLines(db, found)])

\* FirstMatch taking the last item that matches
FirstMatchTakesLast(items, food_name) ==
    LET hits == { i \in 1..Len(items) : Contains(Lower(food_name), Lower(items[i].name)) }
    IN  IF hits = {} THEN 0 ELSE CHOOSE i \in hits : \A j \in hits : i >= j

\* the first item whose name contains the given name, ignoring case;
\* 0 when there is none
FirstMatch(items, food_name) ==
    LET hits == { i \in 1..Len(items) : Contains(Lower(food_name), Lower(items[i].name)) }
    IN  IF hits = {} THEN 0 ELSE CHOOSE i \in hits : \A j \in hits : i <= j

\* the total written back by a Delete of one item
DeleteTotal(meal, target_item) == Max(0, meal.total_calories - target_item.calories)

\* DeleteItem that keeps the meal row of the last item
DeleteItemKeepsMeal(db, meal, items, target_item) ==
    Store(SetTotal(db.meals, meal.id, DeleteTotal(meal, target_item)),
          WithoutItem(db.meal_items, target_item.id),
          db.nextMealId, db.nextItemId)

\* the store after a Delete of one item: the item row goes, the total is
\* written back, and the meal row goes with its last item
DeleteItem(db, meal, items, target_item) ==
    LET its == WithoutItem(db.meal_items, target_item.id)
        ms  == SetTotal(db.meals, meal.id, DeleteTotal(meal, target_item))
    IN  IF Len(items) = 1
        THEN Store(WithoutMeal(ms, meal.id), CascadeItems(its, meal.id),
                   db.nextMealId, db.nextItemId)
        ELSE Store(ms, its, db.nextMealId, db.nextItemId)

delete_meal_data(db, user_id, meal_date, meal_type, food_name, empty) ==
    LET rows == SelectMeals(db, user_id, meal_date, meal_type)
    IN  IF rows = <<>>
        THEN NoMeal(db, empty, meal_date, meal_type)
        ELSE
            LET meal == rows[1]
                items == ItemsOf(db, meal.id)
                target == FirstMatch(items, food_name)
            IN  IF food_name # NoText
                THEN IF target = 0
                     THEN Outcome(db, Msg(FALSE, "not_found", <<food_name>>, <<>>, 0))
                     ELSE Outcome(DeleteItem(db, meal, items, items[target]),
                                  Msg(TRUE, "item_deleted", <<items[target].name>>, <<>>, 0))
                ELSE Outcome(
                        Store(WithoutMeal(db.meals, meal.id),
                              CascadeItems(db.meal_items, meal.id),
                              db.nextMealId, db.nextItemId),
                        Msg(TRUE, "meal_deleted", <<>>, <<MEAL_TYPE_LABELS[meal_type]>>, 0))

\* UpdatedItem that leaves the macros of the old food
UpdatedItemKeepsMacros(item, new_food) ==
    [item EXCEPT !.name = new_food.name, !.calories = new_food.calories]

\* name, calories and macros of the row are overwritten
UpdatedItem(item, new_food) ==
    [item EXCEPT !.name = new_food.name,
                 !.calories = new_food.calories,
                 !.protein_g = new_food.protein,
                 !.carbs_g = new_food.carbs,
                 !.fat_g = new_food.fat]

\* UpdateTotal that adds the new calories without taking the old ones off
UpdateTotalAdds(meal, target_item, new_food) ==
    Max(0, meal.total_calories + new_food.calories)

\* the total written back by an Update
UpdateTotal(meal, target_item, new_food) ==
    Max(0, meal.total_calories + (new_food.calories - target_item.calories))

update_meal_data(db, user_id, meal_date, meal_type, old_food_name, new_food, empty) ==
    LET rows == SelectMeals(db, user_id, meal_date, meal_type)
    IN  IF rows = <<>>
        THEN NoMeal(db, empty, meal_date, meal_type)
        ELSE
            LET meal == rows[1]
                items == ItemsOf(db, meal.id)
                target == FirstMatch(items, old_food_name)
            IN  IF target = 0
                THEN Outcome(db, Msg(FALSE, "not_found", <<old_food_name>>, <<>>, 0))
                ELSE Outcome(
                        Store(SetTotal(db.meals, meal.id,
                                       UpdateTotal(meal, items[target], new_food)),
                              [i \in 1..Len(db.meal_items) |->
                                  IF db.meal_items[i].id = items[target].id
                                  THEN UpdatedItem(db.meal_items[i], new_food)
                                  ELSE db.meal_items[i]],
                              db.nextMealId, db.nextItemId),
                        Msg(TRUE, "updated", <<items[target].name, new_food.name>>, <<>>, 0))

(***************************************************************************)
(* ai/prompts/classifier.py                                                *)
(***************************************************************************)
IntentLog     == <<"l", "o", "g">>
IntentQuery   == <<"q", "u", "e", "r", "y">>
IntentStats   == <<"s", "t", "a", "t", "s">>
IntentModify  == <<"m", "o", "d", "i", "f", "y">>
IntentAnalyze == <<"a", "n", "a", "l", "y", "z", "e">>
IntentChat    == <<"c", "h", "a", "t">>

VALID_INTENTS ==
    {IntentLog, IntentQuery, IntentStats, IntentModify, IntentAnalyze, IntentChat}

\* what client.chat.completions.create does on one call of the classifier:
\* it raises, or it returns a message whose content is None or a text
Raised == [raised |-> TRUE, has_content |-> FALSE, content |-> <<>>]
NoContent == [raised |-> FALSE, has_content |-> FALSE, content |-> <<>>]
Completion(content) == [raised |-> FALSE, has_content |-> TRUE, content |-> content]

\* the texts the model may answer the classifier prompt with
ClassifierTexts == {
    IntentLog,
    <<" ", "Q", "u", "e", "r", "y", "\n">>,
    <<"S", "T", "A", "T", "S">>,
    <<"M", "o", "d", "i", "f", "y", " ">>,
    <<"\t", "a", "n", "a", "l", "y", "z", "e">>,
    IntentChat,
    <<"l", "o", "g", "i", "n">>,
    <<"l", "o", " ", "g">>,
    <<"l", "o", "g", ".">>,
    <<" ", "\n">>,
    <<>> }

ClassifierResponses ==
    {Raised, NoContent} \cup { Completion(c) : c \in ClassifierTexts }

\* the model client of one classification: its answer to the first call and
\* to a second one, were there one
ClassifierClients == [1..2 -> ClassifierResponses]

\* what a call of classify_intent comes to: the label returned, whether an
\* exception left the function, and the responses its calls of the model got
Classified(intent, responses) ==
    [raised |-> FALSE, intent |-> intent, responses |-> responses]

\* classify_intent: try: create(..); result = content; if result: strip
\* and lower, return it when it is a valid label; "chat" otherwise and on
\* any exception
classify_intent(client) ==
    LET response == client[1]
        result == Lower(Strip(response.content))
    IN  IF response.raised
        THEN Classified(IntentChat, <<response>>)
        ELSE IF response.has_content /\ response.content # <<>>
                /\ result \in VALID_INTENTS
             THEN Classified(result, <<response>>)
             ELSE Classified(IntentChat, <<response>>)

(***************************************************************************)
(* ai/tools/food_tools.py                                                  *)
(***************************************************************************)
\* date.today().isoformat()
get_today_local == "2024-05-01"

\* get_tools_for_intent that offers the tools of modify for stats as well
get_tools_for_intentStats(intent) ==
    IF intent = IntentLog THEN <<"log_meal">>
    ELSE IF intent = IntentQuery THEN <<"get_meals">>
    ELSE IF intent \in {IntentModify, IntentStats}
    THEN <<"delete_meal", "update_meal", "log_meal">>
    ELSE <<>>

\* the names of the tools offered with a request, in the order of the list
get_tools_for_intent(intent) ==
    IF intent = IntentLog THEN <<"log_meal">>
    ELSE IF intent = IntentQuery THEN <<"get_meals">>
    ELSE IF intent = IntentModify THEN <<"delete_meal", "update_meal", "log_meal">>
    ELSE <<>>

\* raw argument strings of tool calls, as the model may write them
LogArgs          == "{\"meal_type\":\"lunch\",\"foods\":[{\"name\":\"rice\",\"calories\":5}]}"
LogArgsNoType    == "{\"foods\":[{\"name\":\"rice\",\"calories\":5}]}"
GetArgsAll       == "{}"
MealTypeArgs     == "{\"meal_type\":\"lunch\"}"
BadJson          == "{\"meal_type\":"
DeleteArgs       == "{\"meal_type\":\"lunch\",\"food_name\":\"ric\"}"
UpdateArgs       == "{\"meal_type\":\"lunch\",\"old_food_name\":\"ric\",\"new_food\":{\"name\":\"Rice\",\"calories\":4,\"carbs\":0.9}}"
UpdateArgsNoFood == "{\"meal_type\":\"lunch\",\"old_food_name\":\"ric\"}"
DeleteArgsNoType == "{\"food_name\":\"ric\"}"
LogArgsNoFoods   == "{\"meal_type\":\"lunch\",\"foods\":[]}"

\* json.loads on those strings; a string outside the domain makes it raise.
\* Food names are decoded to sequences of characters, quantities to halves
\* of a serving and macros to tenths of a gram.
JsonLoads ==
    LogArgs :> [meal_type |-> "lunch", foods |-> <<[name |-> rice, calories |-> 5]>>]
    @@ LogArgsNoType :> [foods |-> <<[name |-> rice, calories |-> 5]>>]
    @@ GetArgsAll :> [x \in {} |-> ""]
    @@ MealTypeArgs :> [meal_type |-> "lunch"]
    @@ DeleteArgs :> [meal_type |-> "lunch", food_name |-> ric]
    @@ UpdateArgs :> [meal_type |-> "lunch", old_food_name |-> ric,
                      new_food |-> [name |-> Rice, calories |-> 4, carbs |-> 9]]
    @@ UpdateArgsNoFood :> [meal_type |-> "lunch", old_food_name |-> ric]
    @@ DeleteArgsNoType :> [food_name |-> ric]
    @@ LogArgsNoFoods :> [meal_type |-> "lunch", foods |-> <<>>]

\* every argument string above
RawArguments == DOMAIN JsonLoads \cup {BadJson}

\* the names of the four tools
ToolNames == {"log_meal", "get_meals", "delete_meal", "update_meal"}

\* "required" of the parameters of each tool
Required ==
    [log_meal    |-> {"meal_type", "foods"},
     get_meals   |-> {},
     delete_meal |-> {"meal_type"},
     update_meal |-> {"meal_type", "old_food_name", "new_food"}]

\* the argument strings the model may give each tool
ToolArguments ==
    [log_meal    |-> {LogArgs, LogArgsNoType, LogArgsNoFoods},
     get_meals   |-> {GetArgsAll, MealTypeArgs, BadJson},
     delete_meal |-> {DeleteArgs, MealTypeArgs},
     update_meal |-> {UpdateArgs, UpdateArgsNoFood}]

\* the value None of a parser that gives up
None == [none |-> TRUE]

IsNone(x) == "none" \in DOMAIN x

\* dict.get(key, default)
Get(d, key, default) == IF key \in DOMAIN d THEN d[key] ELSE default

\* `not args.get(key)`: the key is missing or its value is the empty one of
\* its type
Missing(d, key, empty) == key \notin DOMAIN d \/ d[key] = empty

\* parse_log_meal_args that takes an empty list of foods
parse_log_meal_argsEmptyFoods(args_string) ==
    IF args_string \notin DOMAIN JsonLoads
    THEN None
    ELSE LET args == JsonLoads[args_string]
         IN  IF Missing(args, "meal_type", "") \/ "foods" \notin DOMAIN args
             THEN None
             ELSE [meal_type |-> args.meal_type,
                   date      |-> IF Missing(args, "date", "")
                                 THEN get_today_local ELSE args.date,
                   foods     |-> [i \in 1..Len(args.foods) |->
                                    [name     |-> Get(args.foods[i], "name", NoText),
                                     quantity |-> Get(args.foods[i], "quantity", 2),
                                     calories |-> Get(args.foods[i], "calories", 0),
                                     protein  |-> Get(args.foods[i], "protein", 0),
                                     carbs    |-> Get(args.foods[i], "carbs", 0),
                                     fat      |-> Get(args.foods[i], "fat", 0)]]]

parse_log_meal_args(args_string) ==
    IF args_string \notin DOMAIN JsonLoads
    THEN None
    ELSE LET args == JsonLoads[args_string]
         IN  IF Missing(args, "meal_type", "") \/ Missing(args, "foods", <<>>)
             THEN None
             ELSE [meal_type |-> args.meal_type,
                   date      |-> IF Missing(args, "date", "")
                                 THEN get_today_local ELSE args.date,
                   foods     |-> [i \in 1..Len(args.foods) |->
                                    [name     |-> Get(args.foods[i], "name", NoText),
                                     quantity |-> Get(args.foods[i], "quantity", 2),
                                     calories |-> Get(args.foods[i], "calories", 0),
                                     protein  |-> Get(args.foods[i], "protein", 0),
                                     carbs    |-> Get(args.foods[i], "carbs", 0),
                                     fat      |-> Get(args.foods[i], "fat", 0)]]]

parse_get_meals_args(args_string) ==
    IF args_string \notin DOMAIN JsonLoads
    THEN [date |-> get_today_local, meal_type |-> "all"]
    ELSE LET args == JsonLoads[args_string]
         IN  [date      |-> Get(args, "date", get_today_local),
              meal_type |-> Get(args, "meal_type", "all")]

\* parse_delete_meal_args that takes lunch for a missing meal_type
parse_delete_meal_argsLenient(args_string) ==
    IF args_string \notin DOMAIN JsonLoads
    THEN None
    ELSE LET args == JsonLoads[args_string]
         IN  [date      |-> Get(args, "date", get_today_local),
              meal_type |-> Get(args, "meal_type", "lunch"),
              food_name |-> Get(args, "food_name", NoText)]

parse_delete_meal_args(args_string) ==
    IF args_string \notin DOMAIN JsonLoads
    THEN None
    ELSE LET args == JsonLoads[args_string]
         IN  IF Missing(args, "meal_type", "")
             THEN None
             ELSE [date      |-> Get(args, "date", get_today_local),
                   meal_type |-> args.meal_type,
                   food_name |-> Get(args, "food_name", NoText)]

parse_update_meal_args(args_string) ==
    IF args_string \notin DOMAIN JsonLoads
    THEN None
    ELSE LET args == JsonLoads[args_string]
         IN  IF \/ Missing(args, "meal_type", "")
                \/ Missing(args, "old_food_name", NoText)
                \/ "new_food" \notin DOMAIN args
                \/ DOMAIN args.new_food = {}
             THEN None
             ELSE [date          |-> Get(args, "date", get_today_local),
                   meal_type     |-> args.meal_type,
                   old_food_name |-> args.old_food_name,
                   new_food      |->
                        [name     |-> Get(args.new_food, "name", NoText),
                         calories |-> Get(args.new_food, "calories", 0),
                         protein  |-> Get(args.new_food, "protein", 0),
                         carbs    |-> Get(args.new_food, "carbs", 0),
                         fat      |-> Get(args.new_food, "fat", 0)]]

(***************************************************************************)
(* services/meal_service.py: infer_meal_type                               *)
(***************************************************************************)
\* the hours datetime.now().hour may give
Hours == {4, 9, 14, 20}

infer_meal_type(hour) ==
    IF 5 <= hour /\ hour < 10 THEN "breakfast"
    ELSE IF 10 <= hour /\ hour < 15 THEN "lunch"
    ELSE IF 15 <= hour /\ hour < 21 THEN "dinner"
    ELSE "snack"

(***************************************************************************)
(* services/chat_service.py: the values process_message works with         *)
(***************************************************************************)
CHAT_TYPE == "diet"

\* a text of the conversation: what was typed or generated, or the tool
\* results joined line by line
Said(text) == [text |-> text, parts |-> <<>>]

\* "\n".join(tr["result"] for tr in tool_results_with_ids)
Joined(results) == [text |-> "", parts |-> results]

\* `not assistant_content`
IsEmpty(said) == said.text = "" /\ said.parts = <<>>

\* the messages a user may send
Contents == {Said("hello")}

\* the texts the model may put in the content of a reply ("" stands for
\* None and for the empty text, which `or ""` makes the same)
ModelTexts == {"", "reply"}

\* a result string that is not the message of a MealStore operation
Text(kind) == [kind |-> kind, names |-> <<>>, label |-> <<>>, kcal |-> 0, lines |-> <<>>]

\* res["message"]
MessageOf(res) ==
    [kind |-> res.kind, names |-> res.names, label |-> res.label, kcal |-> res.kcal,
     lines |-> res.lines]

NoResult  == Text("")
Completed == Text("completed")
Skipped   == Text("duplicate_call_skipped")

\* no follow-up request was made
NoFollowUp == [tool_calls |-> <<>>, tool_messages |-> <<>>]

\* follow_up_messages without the messages of the calls that were skipped
follow_up_messagesWithoutSkipped(tool_calls, tool_results_with_ids) ==
    [tool_calls    |-> tool_calls,
     tool_messages |->
        LET executed == SelectSeq(tool_results_with_ids, LAMBDA tr : tr.result # Skipped)
        IN  [i \in 1..Len(executed) |->
                [role |-> "tool", tool_call_id |-> executed[i].id,
                 content |-> executed[i].result]]]

\* the messages of the follow-up request after the system and the user
\* message: the assistant message that replays the tool calls of the first
\* response, and one tool message per entry of tool_results_with_ids
follow_up_messages(tool_calls, tool_results_with_ids) ==
    [tool_calls    |-> [i \in 1..Len(tool_calls) |->
                            [id |-> tool_calls[i].id, name |-> tool_calls[i].name,
                             arguments |-> tool_calls[i].arguments]],
     tool_messages |-> [i \in 1..Len(tool_results_with_ids) |->
                            [role |-> "tool",
                             tool_call_id |-> tool_results_with_ids[i].id,
                             content |-> tool_results_with_ids[i].result]]]

Fallback  == Said("cannot_generate_response")

\* InsertMessage that returns without having written the row
InsertMessageLost(msgs, id, user_id, role, content) == msgs

\* db.table("chat_messages").insert({...}).execute()
InsertMessage(msgs, id, user_id, role, content) ==
    Append(msgs, [id |-> id, user_id |-> user_id, role |-> role, content |-> content,
                  chat_type |-> CHAT_TYPE])

\* call_key that tells apart the calls of one response by their id
call_keyWithId(tool_call) ==
    <<tool_call.name, ":", tool_call.arguments, tool_call.id>>

\* f"{func_name}:{func_args}"; the names of the tools hold no colon, so the
\* text is kept as its three parts
call_key(tool_call) == <<tool_call.name, ":", tool_call.arguments>>

\* the body of the loop for a call that is not a duplicate: the store after
\* it, the result string, and the MealStore operation called ("none" when the
\* parser gave None or the name is of no tool), and whether the operation
\* raised; hour is the hour of the clock and empty what the client library
\* gives for a select of no row
Executed(out, op) ==
    [db |-> out.db, result |-> MessageOf(out.result), op |-> op,
     raised |-> out.result.raised]
NotExecuted(db) == [db |-> db, result |-> NoResult, op |-> "none", raised |-> FALSE]

ExecuteToolCall(db, user_id, func_name, func_args, hour, empty) ==
    IF func_name = "log_meal"
    THEN LET args == parse_log_meal_args(func_args)
         IN  IF ~IsNone(args)
             THEN Executed(log_meal_directly(db, user_id,
                              IF args.meal_type # "" THEN args.meal_type
                              ELSE infer_meal_type(hour),
                              IF args.date # "" THEN args.date ELSE get_today_local,
                              args.foods),
                           "log_meal_directly")
             ELSE NotExecuted(db)
    ELSE IF func_name = "get_meals"
    THEN LET args == parse_get_meals_args(func_args)
         IN  Executed(get_meals_data(db, user_id,
                          IF args.date # "" THEN args.date ELSE get_today_local,
                          IF args.meal_type # "" THEN args.meal_type ELSE "all"),
                      "get_meals_data")
    ELSE IF func_name = "delete_meal"
    THEN LET args == parse_delete_meal_args(func_args)
         IN  IF ~IsNone(args)
             THEN Executed(delete_meal_data(db, user_id, args.date, args.meal_type,
                                            args.food_name, empty),
                           "delete_meal_data")
             ELSE NotExecuted(db)
    ELSE IF func_name = "update_meal"
    THEN LET args == parse_update_meal_args(func_args)
         IN  IF ~IsNone(args)
             THEN Executed(update_meal_data(db, user_id, args.date, args.meal_type,
                                            args.old_food_name, args.new_food, empty),
                           "update_meal_data")
             ELSE NotExecuted(db)
    ELSE NotExecuted(db)

\* CompletionParams that leaves the choice of the tool to the model for
\* every intent
CompletionParamsAuto(intent) ==
    LET tools == get_tools_for_intent(intent)
    IN  [tools       |-> tools,
         tool_choice |-> IF tools = <<>> THEN "unset" ELSE "auto",
         max_tokens  |-> IF intent = IntentChat THEN 150 ELSE 500]

\* completion_params: the tools, the tool_choice and max_tokens of the
\* first call of the model
CompletionParams(intent) ==
    LET tools == get_tools_for_intent(intent)
    IN  [tools       |-> tools,
         tool_choice |-> IF tools = <<>> THEN "unset"
                         ELSE IF intent = IntentQuery THEN "get_meals" ELSE "auto",
         max_tokens  |-> IF intent = IntentChat THEN 150 ELSE 500]

NoRequest == [tools |-> <<>>, tool_choice |-> "unset", max_tokens |-> 0]

\* the tool calls the model may make of one tool
CallsOf(name) == { [name |-> name, arguments |-> a] : a \in ToolArguments[name] }

\* the lists of tool calls the model may answer a request with: calls of the
\* tools offered, at least one call of get_meals when tool_choice forces it
ToolCallLists(request) ==
    LET offered == UNION { CallsOf(request.tools[i]) : i \in 1..Len(request.tools) }
    IN  IF request.tool_choice = "get_meals"
        THEN UNION { [1..n -> CallsOf("get_meals")] : n \in 1..MaxToolCalls }
        ELSE UNION { [1..n -> offered] : n \in 0..MaxToolCalls }

\* tool_call.id: the calls of a response are numbered
WithIds(calls) ==
    [i \in 1..Len(calls) |->
        [id |-> i, name |-> calls[i].name, arguments |-> calls[i].arguments]]

\* the meal_items rows the calls of a response may ask the store for
RECURSIVE RowsNeeded(_)
RowsNeeded(calls) ==
    IF calls = <<>> THEN 0
    ELSE (IF calls[1].name = "log_meal" /\ ~IsNone(parse_log_meal_args(calls[1].arguments))
          THEN Len(parse_log_meal_args(calls[1].arguments).foods) ELSE 0)
         + RowsNeeded(Tail(calls))

NoReply == [status |-> 0, message |-> Said(""), intent |-> NoText,
            has_action_result |-> FALSE, action_result |-> <<>>]

\* no request in progress
NoTurn ==
    [pc                    |-> "idle",
     failed_at             |-> "",
     user_id               |-> "",
     content               |-> Said(""),
     message_id            |-> 0,
     classifier            |-> <<>>,
     classify_calls        |-> 0,
     intent                |-> NoText,
     user_context          |-> "unset",
     request               |-> NoRequest,
     completions           |-> 0,
     tool_calls            |-> <<>>,
     idx                   |-> 0,
     processed_calls       |-> {},
     tool_results_with_ids |-> <<>>,
     store_calls           |-> <<>>,
     follow_up             |-> NoFollowUp,
     assistant_content     |-> Said(""),
     reply                 |-> NoReply]

(***************************************************************************)
(* Spec: the MealStore operations, called one at a time                    *)
(***************************************************************************)
Init ==
    /\ meals = <<>>
    /\ meal_items = <<>>
    /\ nextMealId = 1
    /\ nextItemId = 1
    /\ chat_messages = <<>>
    /\ nextMessageId = 1
    /\ turn = NoTurn

\* the store takes the writes of a call
Apply(out) ==
    /\ meals' = out.db.meals
    /\ meal_items' = out.db.meal_items
    /\ nextMealId' = out.db.nextMealId
    /\ nextItemId' = out.db.nextItemId

\* the model has rows left for the call
RowsLeft(out) ==
    /\ out.db.nextMealId <= MaxMealRows + 1
    /\ out.db.nextItemId <= MaxItemRows + 1

Log ==
    \E u \in Users, d \in Dates, t \in OpMealTypes, fs \in FoodLists :
        /\ RowsLeft(log_meal_directly(DB, u, t, d, fs))
        /\ Apply(log_meal_directly(DB, u, t, d, fs))
        /\ UNCHANGED turnVars

Query ==
    \E u \in Users, d \in Dates, t \in OpMealTypes \cup {"all"} :
        /\ RowsLeft(get_meals_data(DB, u, d, t))
        /\ Apply(get_meals_data(DB, u, d, t))
        /\ UNCHANGED turnVars

Delete ==
    \E u \in Users, d \in Dates, t \in OpMealTypes, n \in FoodNames \cup {NoText},
       e \in MaybeSingleEmpty :
        /\ RowsLeft(delete_meal_data(DB, u, d, t, n, e))
        /\ Apply(delete_meal_data(DB, u, d, t, n, e))
        /\ UNCHANGED turnVars

Update ==
    \E u \in Users, d \in Dates, t \in OpMealTypes, n \in FoodNames, nf \in NewFoods,
       e \in MaybeSingleEmpty :
        /\ RowsLeft(update_meal_data(DB, u, d, t, n, nf, e))
        /\ Apply(update_meal_data(DB, u, d, t, n, nf, e))
        /\ UNCHANGED turnVars

Next == Log \/ Query \/ Delete \/ Update

Spec == Init /\ [][Next]_vars

(***************************************************************************)
(* SpecTurn: POST /message, one request at a time, step by step; and       *)
(* DELETE /history between two requests                                    *)
(***************************************************************************)
\* an exception leaves process_message: send_message answers 500, and
\* nothing that was written is taken back
Fails(step) ==
    turn' = [turn EXCEPT !.pc = "failed", !.failed_at = step, !.classifier = <<>>,
                         !.reply = [NoReply EXCEPT !.status = 500]]

\* 1. the user message is saved
Receive ==
    /\ turn.pc = "idle"
    /\ nextMessageId + 1 <= MaxMessages
    /\ \E u \in Users, c \in Contents :
        /\ chat_messages' = InsertMessage(chat_messages, nextMessageId, u, "user", c)
        /\ turn' = [NoTurn EXCEPT !.pc = "received", !.user_id = u, !.content = c,
                                  !.message_id = nextMessageId]
    /\ nextMessageId' = nextMessageId + 1
    /\ UNCHANGED storeVars

\* the insert of the user message raises
ReceiveFails ==
    /\ turn.pc = "idle"
    /\ nextMessageId + 1 <= MaxMessages
    /\ \E u \in Users, c \in Contents :
        turn' = [NoTurn EXCEPT !.pc = "failed", !.failed_at = "insert", !.user_id = u,
                               !.content = c, !.reply = [NoReply EXCEPT !.status = 500]]
    /\ UNCHANGED <<storeVars, chat_messages, nextMessageId>>

\* 2. intent = await classify_intent(openai_client, content)
Classify ==
    /\ turn.pc = "received"
    /\ \E client \in ClassifierClients :
        LET out == classify_intent(client)
        IN  IF out.raised
            THEN Fails("classify")
            ELSE turn' = [turn EXCEPT !.pc = "classified",
                                      !.intent = out.intent,
                                      !.classifier = out.responses,
                                      !.classify_calls = Len(out.responses)]
    /\ UNCHANGED <<storeVars, chat_messages, nextMessageId>>

\* 3. user_context = await fetch_user_context(db, user_id)
FetchContext ==
    /\ turn.pc = "classified"
    /\ turn.intent # IntentChat
    /\ turn' = [turn EXCEPT !.pc = "context-loaded", !.user_context = "fetched",
                            !.classifier = <<>>]
    /\ UNCHANGED <<storeVars, chat_messages, nextMessageId>>

\* a query of fetch_user_context raises
FetchContextFails ==
    /\ turn.pc = "classified"
    /\ turn.intent # IntentChat
    /\ Fails("context")
    /\ UNCHANGED <<storeVars, chat_messages, nextMessageId>>

\* SkipContext that fetches the context from the store for chat as well
SkipContextFetches ==
    /\ turn.pc = "classified"
    /\ turn.intent = IntentChat
    /\ turn' = [turn EXCEPT !.pc = "context-loaded", !.user_context = "fetched",
                            !.classifier = <<>>]
    /\ UNCHANGED <<storeVars, chat_messages, nextMessageId>>

\* 3. user_context = UserContext(today=get_today_local())
SkipContext ==
    /\ turn.pc = "classified"
    /\ turn.intent = IntentChat
    /\ turn' = [turn EXCEPT !.pc = "context-loaded", !.user_context = "today",
                            !.classifier = <<>>]
    /\ UNCHANGED <<storeVars, chat_messages, nextMessageId>>

\* 4. and 5. the prompt and the tools of the intent, and the first call of
\* the model
CallModel ==
    /\ turn.pc = "context-loaded"
    /\ \E text \in ModelTexts, calls \in ToolCallLists(CompletionParams(turn.intent)) :
        /\ nextMealId + RowsNeeded(calls) <= MaxMealRows + 1
        /\ nextItemId + RowsNeeded(calls) <= MaxItemRows + 1
        /\ turn' = [turn EXCEPT
                        !.pc = IF calls = <<>> THEN "synthesized" ELSE "model-called",
                        !.request = CompletionParams(turn.intent),
                        !.completions = 1,
                        !.assistant_content = Said(text),
                        !.tool_calls = WithIds(calls)]
    /\ UNCHANGED <<storeVars, chat_messages, nextMessageId>>

\* the first call of the model raises
CallModelFails ==
    /\ turn.pc = "context-loaded"
    /\ turn' = [turn EXCEPT !.pc = "failed", !.failed_at = "model",
                            !.request = CompletionParams(turn.intent),
                            !.completions = 1,
                            !.reply = [NoReply EXCEPT !.status = 500]]
    /\ UNCHANGED <<storeVars, chat_messages, nextMessageId>>

\* the tool call the loop is at
ToolCall == turn.tool_calls[turn.idx + 1]

\* the loop has gone round once more
Processed(result, op) ==
    [turn EXCEPT
        !.pc = IF turn.idx + 1 = Len(turn.tool_calls) THEN "tools-executed"
               ELSE "model-called",
        !.idx = turn.idx + 1,
        !.tool_results_with_ids = Append(@, [id |-> ToolCall.id, result |-> result]),
        !.store_calls = Append(@, op)]

\* 6. a tool call whose key is among the processed ones
SkipDuplicate ==
    /\ turn.pc = "model-called"
    /\ call_key(ToolCall) \in turn.processed_calls
    /\ turn' = Processed(Skipped, "none")
    /\ UNCHANGED <<storeVars, chat_messages, nextMessageId>>

\* 6. a tool call of a new key: parsed and dispatched
ExecTool ==
    /\ turn.pc = "model-called"
    /\ call_key(ToolCall) \notin turn.processed_calls
    /\ \E hour \in Hours, empty \in MaybeSingleEmpty :
        LET out == ExecuteToolCall(DB, turn.user_id, ToolCall.name, ToolCall.arguments,
                                   hour, empty)
        IN  /\ ~out.raised
            /\ Apply(out)
            /\ turn' = [Processed(IF out.result = NoResult THEN Completed ELSE out.result,
                                  out.op)
                            EXCEPT !.processed_calls = @ \cup {call_key(ToolCall)}]
    /\ UNCHANGED <<chat_messages, nextMessageId>>

\* 6. the MealStore operation of a tool call raises after its select
ToolRaises ==
    /\ turn.pc = "model-called"
    /\ call_key(ToolCall) \notin turn.processed_calls
    /\ \E hour \in Hours, empty \in MaybeSingleEmpty :
        LET out == ExecuteToolCall(DB, turn.user_id, ToolCall.name, ToolCall.arguments,
                                   hour, empty)
        IN  /\ out.raised
            /\ Apply(out)
    /\ turn' = [turn EXCEPT !.pc = "failed", !.failed_at = "tool",
                            !.processed_calls = @ \cup {call_key(ToolCall)},
                            !.reply = [NoReply EXCEPT !.status = 500]]
    /\ UNCHANGED <<chat_messages, nextMessageId>>

\* ToolFails that takes back what the earlier tool calls of the turn wrote
ToolFailsRollsBack ==
    /\ turn.pc = "model-called"
    /\ call_key(ToolCall) \notin turn.processed_calls
    /\ \E hour \in Hours, empty \in MaybeSingleEmpty :
        ExecuteToolCall(DB, turn.user_id, ToolCall.name, ToolCall.arguments,
                        hour, empty).op # "none"
    /\ turn' = [turn EXCEPT !.pc = "failed", !.failed_at = "tool",
                            !.processed_calls = @ \cup {call_key(ToolCall)},
                            !.reply = [NoReply EXCEPT !.status = 500]]
    /\ meals' = IF turn.idx > 0 THEN <<>> ELSE meals
    /\ meal_items' = IF turn.idx > 0 THEN <<>> ELSE meal_items
    /\ UNCHANGED <<nextMealId, nextItemId, chat_messages, nextMessageId>>

\* 6. a request of the MealStore operation of a tool call fails: the
\* operation raises at its first request
ToolFails ==
    /\ turn.pc = "model-called"
    /\ call_key(ToolCall) \notin turn.processed_calls
    /\ \E hour \in Hours, empty \in MaybeSingleEmpty :
        ExecuteToolCall(DB, turn.user_id, ToolCall.name, ToolCall.arguments,
                        hour, empty).op # "none"
    /\ turn' = [turn EXCEPT !.pc = "failed", !.failed_at = "tool",
                            !.processed_calls = @ \cup {call_key(ToolCall)},
                            !.reply = [NoReply EXCEPT !.status = 500]]
    /\ UNCHANGED <<storeVars, chat_messages, nextMessageId>>

\* FollowUp that is made whether the first reply had content or not
FollowUpAlways ==
    /\ turn.pc = "tools-executed"
    /\ turn.tool_results_with_ids # <<>>
    /\ \E text \in ModelTexts :
        turn' = [turn EXCEPT
                    !.pc = "synthesized",
                    !.completions = @ + 1,
                    !.follow_up = follow_up_messages(turn.tool_calls,
                                                     turn.tool_results_with_ids),
                    !.assistant_content =
                        IF text # "" THEN Said(text)
                        ELSE Joined([i \in 1..Len(turn.tool_results_with_ids) |->
                                        turn.tool_results_with_ids[i].result])]
    /\ UNCHANGED <<storeVars, chat_messages, nextMessageId>>

\* the follow-up call of the model, made when the first reply had tool
\* calls and no content
FollowUp ==
    /\ turn.pc = "tools-executed"
    /\ turn.tool_results_with_ids # <<>>
    /\ IsEmpty(turn.assistant_content)
    /\ \E text \in ModelTexts :
        turn' = [turn EXCEPT
                    !.pc = "synthesized",
                    !.completions = @ + 1,
                    !.follow_up = follow_up_messages(turn.tool_calls,
                                                     turn.tool_results_with_ids),
                    !.assistant_content =
                        IF text # "" THEN Said(text)
                        ELSE Joined([i \in 1..Len(turn.tool_results_with_ids) |->
                                        turn.tool_results_with_ids[i].result])]
    /\ UNCHANGED <<storeVars, chat_messages, nextMessageId>>

\* the follow-up call of the model raises
FollowUpFails ==
    /\ turn.pc = "tools-executed"
    /\ turn.tool_results_with_ids # <<>>
    /\ IsEmpty(turn.assistant_content)
    /\ turn' = [turn EXCEPT !.pc = "failed", !.failed_at = "follow-up",
                            !.completions = @ + 1,
                            !.follow_up = follow_up_messages(turn.tool_calls,
                                                turn.tool_results_with_ids),
                            !.reply = [NoReply EXCEPT !.status = 500]]
    /\ UNCHANGED <<storeVars, chat_messages, nextMessageId>>

\* no follow-up call is due
ReadyToSave ==
    \/ turn.pc = "synthesized"
    \/ turn.pc = "tools-executed" /\ ~IsEmpty(turn.assistant_content)

\* FinalContent without the fallback text
FinalContentAsIs == turn.assistant_content

\* 7. the fallback text
FinalContent ==
    IF IsEmpty(turn.assistant_content) THEN Fallback ELSE turn.assistant_content

\* 7. and 8. the assistant message is saved and the reply returned
SaveAssistant ==
    /\ ReadyToSave
    /\ chat_messages' = InsertMessage(chat_messages, nextMessageId, turn.user_id,
                                      "assistant", FinalContent)
    /\ nextMessageId' = nextMessageId + 1
    /\ turn' = [turn EXCEPT
                    !.pc = "persisted",
                    !.assistant_content = FinalContent,
                    !.reply =
                        [status  |-> 200,
                         message |-> FinalContent,
                         intent  |-> turn.intent,
                         has_action_result |-> turn.tool_calls # <<>>,
                         action_result |->
                            [i \in 1..Len(turn.tool_results_with_ids) |->
                                turn.tool_results_with_ids[i].result]]]
    /\ UNCHANGED storeVars

\* the insert of the assistant message raises
SaveAssistantFails ==
    /\ ReadyToSave
    /\ turn' = [turn EXCEPT !.pc = "failed", !.failed_at = "save",
                            !.assistant_content = FinalContent,
                            !.reply = [NoReply EXCEPT !.status = 500]]
    /\ UNCHANGED <<storeVars, chat_messages, nextMessageId>>

\* send_message has answered: the request is over
Respond ==
    /\ turn.pc \in {"persisted", "failed"}
    /\ turn' = NoTurn
    /\ UNCHANGED <<storeVars, chat_messages, nextMessageId>>

\* DELETE /history: clear_chat_history
ClearHistory ==
    /\ turn.pc = "idle"
    /\ \E u \in Users :
        chat_messages' = SelectSeq(chat_messages,
                            LAMBDA m : ~(m.user_id = u /\ m.chat_type = CHAT_TYPE))
    /\ UNCHANGED <<storeVars, nextMessageId, turn>>

NextTurn ==
    \/ Receive \/ ReceiveFails
    \/ Classify
    \/ FetchContext \/ FetchContextFails \/ SkipContext
    \/ CallModel \/ CallModelFails
    \/ SkipDuplicate \/ ExecTool \/ ToolRaises \/ ToolFails
    \/ FollowUp \/ FollowUpFails
    \/ SaveAssistant \/ SaveAssistantFails
    \/ Respond
    \/ ClearHistory

SpecTurn == Init /\ [][NextTurn]_vars

(***************************************************************************)
(* Properties of the MealStore operations                                  *)
(***************************************************************************)
SameKey(m, u, d, t) == m.user_id = u /\ m.date = d /\ m.meal_type = t

HasMeal(u, d, t) == \E i \in 1..Len(meals) : SameKey(meals[i], u, d, t)

\* the meals row of a key that has one
MealOf(u, d, t) == CHOOSE m \in {meals[i] : i \in 1..Len(meals)} : SameKey(m, u, d, t)

\* the items of a Meal, in the order of the table
Items(meal_id) == SelectSeq(meal_items, LAMBDA it : it.meal_id = meal_id)

EqualIgnoringCase(a, b) == Lower(a) = Lower(b)

\* the Meal holds an item of that name, ignoring case
Recorded(meal_id, name) ==
    \E i \in 1..Len(meal_items) :
        meal_items[i].meal_id = meal_id /\ EqualIgnoringCase(meal_items[i].name, name)

\* C1: every existing Meal's total_calories equals the sum of the calories
\* of its current MealItems, after any sequence of Log, Delete and Update
\* calls with non-negative calories.
C1_TotalIsSumOfItems ==
    \A i \in 1..Len(meals) :
        meals[i].total_calories = SumCalories(Items(meals[i].id))

\* a meal of several items with a positive total, in a store where an item
\* row was deleted and another was overwritten by an Update
C1_Witness ==
    \E i \in 1..Len(meals) :
        /\ Len(Items(meals[i].id)) >= 2
        /\ meals[i].total_calories > 0
        /\ nextItemId > Len(meal_items) + 1
        /\ \E j \in 1..Len(meal_items), nf \in NewFoods :
               /\ meal_items[j].meal_id = meals[i].id
               /\ meal_items[j].name = nf.name
               /\ meal_items[j].calories = nf.calories

\* C2: the store holds at most one Meal for each (user_id, date,
\* meal_type); a Log creates a Meal only when the key has none, and
\* otherwise adds its items to the existing one and creates no row in meals.
C2_OneMealPerKey ==
    /\ \A i, j \in 1..Len(meals) :
        SameKey(meals[i], meals[j].user_id, meals[j].date, meals[j].meal_type) => i = j
    /\ \A u \in Users, d \in Dates, t \in OpMealTypes, fs \in FoodLists :
        LET out == log_meal_directly(DB, u, t, d, fs).db
        IN  IF HasMeal(u, d, t)
            THEN /\ Len(out.meals) = Len(meals)
                 /\ \A i \in 1..Len(meals) : out.meals[i].id = meals[i].id
                 /\ \A k \in (Len(meal_items) + 1)..Len(out.meal_items) :
                        out.meal_items[k].meal_id = MealOf(u, d, t).id
            ELSE /\ Len(out.meals) = Len(meals) + 1
                 /\ SameKey(out.meals[Len(out.meals)], u, d, t)
                 /\ \A i \in 1..Len(meals) : out.meals[i] = meals[i]

\* the only Meal ever created holds more items than a single Log submits:
\* a later Log of its key added to it
C2_Witness ==
    /\ Len(meals) = 1
    /\ nextMealId = 2
    /\ Len(Items(meals[1].id)) > MaxFoods

\* the submitted foods are all recorded in the Meal of the key
AllRecorded(u, d, t, fs) ==
    /\ HasMeal(u, d, t)
    /\ \A i \in 1..Len(fs) : Recorded(MealOf(u, d, t).id, fs[i].name)

\* C3: a Log whose submitted foods all have, in the Meal of its key, an item
\* of the same name ignoring case returns the "already recorded" success
\* message and leaves the Meal's items and total unchanged; so a Log called
\* again right after itself adds nothing.
C3_DuplicateLogIsNoOp ==
    \A u \in Users, d \in Dates, t \in OpMealTypes, fs \in FoodLists :
        LET first  == log_meal_directly(DB, u, t, d, fs)
            second == log_meal_directly(first.db, u, t, d, fs)
        IN  /\ AllRecorded(u, d, t, fs) =>
                /\ first.db = DB
                /\ first.result.success
                /\ first.result.kind = "already_recorded"
                /\ first.result.names = [i \in 1..Len(fs) |-> fs[i].name]
            /\ second.db = first.db
            /\ second.result.success
            /\ second.result.kind = "already_recorded"

\* a Meal holds an item that a Log submits under a name of another case,
\* and that Log answers "already recorded"
C3_Witness ==
    \E u \in Users, d \in Dates, t \in OpMealTypes, fs \in FoodLists :
        /\ AllRecorded(u, d, t, fs)
        /\ \E i \in 1..Len(fs) : \A j \in 1..Len(meal_items) : meal_items[j].name # fs[i].name
        /\ log_meal_directly(DB, u, t, d, fs).result.kind = "already_recorded"

\* the positions, among the items of a Meal, of those whose name contains
\* the given name ignoring case
Matches(items, name) ==
    { i \in 1..Len(items) : Contains(Lower(name), Lower(items[i].name)) }

\* the least of a non-empty set of positions
Least(S) == CHOOSE i \in S : \A j \in S : i <= j

\* C7: a Delete with a food name that matches the only item of a Meal
\* removes the item and the Meal itself, and a Query for that date and meal
\* type right afterwards returns the "no records" result.
C7_DeleteSoleItemRemovesMeal ==
    \A u \in Users, d \in Dates, t \in OpMealTypes, n \in FoodNames, e \in MaybeSingleEmpty :
        (/\ HasMeal(u, d, t)
         /\ Len(Items(MealOf(u, d, t).id)) = 1
         /\ Matches(Items(MealOf(u, d, t).id), n) # {}) =>
            LET meal  == MealOf(u, d, t)
                out   == delete_meal_data(DB, u, d, t, n, e)
                after == get_meals_data(out.db, u, d, t)
            IN  /\ out.result.success
                /\ out.result.kind = "item_deleted"
                /\ \A k \in 1..Len(out.db.meal_items) :
                       out.db.meal_items[k].meal_id # meal.id
                /\ \A k \in 1..Len(out.db.meals) :
                       /\ out.db.meals[k].id # meal.id
                       /\ ~SameKey(out.db.meals[k], u, d, t)
                /\ after.result.kind = "no_records"
                /\ after.result.success
                /\ after.db = out.db

\* two Meals, one of a single item whose name contains a name that a Delete
\* looks for; that Delete empties the key and leaves the other Meal
C7_Witness ==
    \E u \in Users, d \in Dates, t \in OpMealTypes, n \in FoodNames, e \in MaybeSingleEmpty :
        /\ Len(meals) = 2
        /\ HasMeal(u, d, t)
        /\ Len(Items(MealOf(u, d, t).id)) = 1
        /\ Matches(Items(MealOf(u, d, t).id), n) # {}
        /\ Items(MealOf(u, d, t).id)[1].name # n
        /\ Len(delete_meal_data(DB, u, d, t, n, e).db.meals) = 1
        /\ get_meals_data(delete_meal_data(DB, u, d, t, n, e).db, u, d, t).result.kind
               = "no_records"

\* C8: an Update overwrites the name, calories and macros of exactly one
\* item, the first of the Meal whose name contains old_food_name ignoring
\* case, leaves every other item and the number of items unchanged, and sets
\* the Meal's total_calories to max(0, old total + new calories - old
\* calories); a replacement of fewer calories lowers the total by exactly
\* the difference.
C8_UpdateOverwritesFirstMatch ==
    \A u \in Users, d \in Dates, t \in OpMealTypes, n \in FoodNames, nf \in NewFoods,
       e \in MaybeSingleEmpty :
        (HasMeal(u, d, t) /\ Matches(Items(MealOf(u, d, t).id), n) # {}) =>
            LET meal == MealOf(u, d, t)
                old  == Items(meal.id)[Least(Matches(Items(meal.id), n))]
                out  == update_meal_data(DB, u, d, t, n, nf, e)
            IN  /\ out.result.success
                /\ out.result.kind = "updated"
                /\ Len(out.db.meal_items) = Len(meal_items)
                /\ \A k \in 1..Len(meal_items) :
                       IF meal_items[k].id = old.id
                       THEN out.db.meal_items[k] =
                               [id |-> old.id, meal_id |-> old.meal_id,
                                quantity |-> old.quantity, name |-> nf.name,
                                calories |-> nf.calories, protein_g |-> nf.protein,
                                carbs_g |-> nf.carbs, fat_g |-> nf.fat]
                       ELSE out.db.meal_items[k] = meal_items[k]
                /\ Len(out.db.meals) = Len(meals)
                /\ \A k \in 1..Len(meals) :
                       IF meals[k].id = meal.id
                       THEN out.db.meals[k] =
                               [meal EXCEPT !.total_calories =
                                   IF meal.total_calories + nf.calories - old.calories >= 0
                                   THEN meal.total_calories + nf.calories - old.calories
                                   ELSE 0]
                       ELSE out.db.meals[k] = meals[k]
                /\ old.calories >= nf.calories =>
                       \E k \in 1..Len(meals) :
                           /\ meals[k].id = meal.id
                           /\ meals[k].total_calories - out.db.meals[k].total_calories
                                  = old.calories - nf.calories

\* a Meal of two items whose second item, logged as one serving of rice, was
\* overwritten by an Update with a food of fewer calories, while its first
\* item is as it was logged
C8_Witness ==
    \E i \in 1..Len(meals) :
        LET items == Items(meals[i].id)
        IN  /\ Len(items) >= 2
            /\ items[1].name \in {rice, Rice, ric}
            /\ \E nf \in NewFoods :
                   /\ items[2].name = nf.name
                   /\ items[2].calories = nf.calories
                   /\ items[2].protein_g = nf.protein
                   /\ items[2].carbs_g = nf.carbs
                   /\ items[2].fat_g = nf.fat
                   /\ items[2].quantity = <<2, "inbun">>
                   /\ meals[i].total_calories = items[1].calories + nf.calories

\* C9: a Delete with a food name on a Meal of several items removes exactly
\* one item, the first whose name contains the given name ignoring case,
\* leaves every other item and the Meal row in place, and sets
\* total_calories to max(0, old total - the removed item's calories).
C9_DeleteRemovesFirstMatch ==
    \A u \in Users, d \in Dates, t \in OpMealTypes, n \in FoodNames, e \in MaybeSingleEmpty :
        (/\ HasMeal(u, d, t)
         /\ Len(Items(MealOf(u, d, t).id)) >= 2
         /\ Matches(Items(MealOf(u, d, t).id), n) # {}) =>
            LET meal == MealOf(u, d, t)
                gone == Items(meal.id)[Least(Matches(Items(meal.id), n))]
                out  == delete_meal_data(DB, u, d, t, n, e)
            IN  /\ out.result.success
                /\ out.result.kind = "item_deleted"
                /\ out.result.names = <<gone.name>>
                /\ Len(out.db.meal_items) = Len(meal_items) - 1
                /\ \A k \in 1..Len(out.db.meal_items) : out.db.meal_items[k].id # gone.id
                /\ \A k \in 1..Len(meal_items) :
                       meal_items[k].id # gone.id =>
                           \E j \in 1..Len(out.db.meal_items) :
                               out.db.meal_items[j] = meal_items[k]
                /\ Len(out.db.meals) = Len(meals)
                /\ \A k \in 1..Len(meals) :
                       IF meals[k].id = meal.id
                       THEN out.db.meals[k] =
                               [meal EXCEPT !.total_calories =
                                   IF meal.total_calories - gone.calories >= 0
                                   THEN meal.total_calories - gone.calories
                                   ELSE 0]
                       ELSE out.db.meals[k] = meals[k]

\* a Meal of three items, two of which contain the name a Delete looks for:
\* the Delete takes the earlier of the two and lowers the total
C9_Witness ==
    \E u \in Users, d \in Dates, t \in OpMealTypes, n \in FoodNames, e \in MaybeSingleEmpty :
        /\ HasMeal(u, d, t)
        /\ Len(Items(MealOf(u, d, t).id)) = 3
        /\ Cardinality(Matches(Items(MealOf(u, d, t).id), n)) = 2
        /\ Least(Matches(Items(MealOf(u, d, t).id), n)) = 2
        /\ LET out == delete_meal_data(DB, u, d, t, n, e)
           IN  /\ Len(ItemsOf(out.db, MealOf(u, d, t).id)) = 2
               /\ SelectMeals(out.db, u, d, t)[1].total_calories
                      < MealOf(u, d, t).total_calories

\* the calories of a food for its quantity (in halves of a serving): the
\* product, to the nearest integer
IsScaled(kcal, food) ==
    /\ 2 * kcal >= food.calories * food.quantity - 1
    /\ 2 * kcal <= food.calories * food.quantity + 1

\* the positions of the submitted foods that the Meal has no item for
Unrecorded(meal_id, fs) == { i \in 1..Len(fs) : ~Recorded(meal_id, fs[i].name) }

\* C10: when a Log finds a Meal for its key and only some of the submitted
\* foods match an item name ignoring case, exactly the other foods are
\* appended as new items, in the submitted order, the matching ones are
\* dropped, the existing items are unchanged, and total_calories grows by
\* exactly the sum of the appended items' quantity-scaled calories.
C10_LogAppendsOnlyNewFoods ==
    \A u \in Users, d \in Dates, t \in OpMealTypes, fs \in FoodLists :
        (/\ HasMeal(u, d, t)
         /\ Unrecorded(MealOf(u, d, t).id, fs) # {}
         /\ Unrecorded(MealOf(u, d, t).id, fs) # 1..Len(fs)) =>
            LET meal == MealOf(u, d, t)
                keep == Unrecorded(meal.id, fs)
                out  == log_meal_directly(DB, u, t, d, fs)
                rank(i) == Cardinality({ j \in keep : j <= i })
                added == SubSeq(out.db.meal_items, Len(meal_items) + 1,
                                Len(out.db.meal_items))
            IN  /\ out.result.success
                /\ out.result.kind = "logged"
                /\ SubSeq(out.db.meal_items, 1, Len(meal_items)) = meal_items
                /\ Len(added) = Cardinality(keep)
                /\ \A i \in keep :
                       /\ added[rank(i)].name = fs[i].name
                       /\ added[rank(i)].meal_id = meal.id
                       /\ IsScaled(added[rank(i)].calories, fs[i])
                /\ Len(out.db.meals) = Len(meals)
                /\ \A k \in 1..Len(meals) :
                       IF meals[k].id = meal.id
                       THEN out.db.meals[k] =
                               [meal EXCEPT !.total_calories =
                                   meal.total_calories + SumCalories(added)]
                       ELSE out.db.meals[k] = meals[k]
                /\ out.result.kcal = SumCalories(added)

\* a Meal holding rice, and a Log that submits Rice and ric for its key: ric
\* alone is appended, with its calories for one serving and a half
C10_Witness ==
    \E u \in Users, d \in Dates, t \in OpMealTypes, fs \in FoodLists :
        /\ HasMeal(u, d, t)
        /\ Len(fs) = 2
        /\ fs[1].name = Rice /\ fs[2].name = ric
        /\ Unrecorded(MealOf(u, d, t).id, fs) = {2}
        /\ LET out == log_meal_directly(DB, u, t, d, fs)
           IN  /\ Len(out.db.meal_items) = Len(meal_items) + 1
               /\ out.db.meal_items[Len(out.db.meal_items)].name = ric
               /\ out.result.names = <<ric>>

(***************************************************************************)
(* Properties of the conversation pipeline                                 *)
(***************************************************************************)
\* the tool call at position i repeats an earlier call of the response:
\* same function name, same raw argument string
RepeatsEarlier(i) ==
    \E j \in 1..(i - 1) :
        /\ turn.tool_calls[j].name = turn.tool_calls[i].name
        /\ turn.tool_calls[j].arguments = turn.tool_calls[i].arguments

\* the MealStore operation the dispatch calls for a tool, when the parser
\* accepts the arguments
OperationOf(name) ==
    CASE name = "log_meal"    -> "log_meal_directly"
      [] name = "get_meals"   -> "get_meals_data"
      [] name = "delete_meal" -> "delete_meal_data"
      [] name = "update_meal" -> "update_meal_data"

\* the tool calls processed so far: a repeated one called no MealStore
\* operation and has the result "duplicate call skipped"; one that is not
\* repeated was not skipped, and called no operation but that of its tool
SkippedExactlyWhenRepeated ==
    \A i \in 1..turn.idx :
        /\ turn.tool_results_with_ids[i].id = turn.tool_calls[i].id
        /\ IF RepeatsEarlier(i)
           THEN /\ turn.store_calls[i] = "none"
                /\ turn.tool_results_with_ids[i].result = Skipped
           ELSE /\ turn.tool_results_with_ids[i].result # Skipped
                /\ turn.store_calls[i] \in {"none", OperationOf(turn.tool_calls[i].name)}

\* of the calls of one name and one argument string, at most one called a
\* MealStore operation
ExecutedAtMostOnce ==
    \A i, j \in 1..turn.idx :
        (/\ turn.tool_calls[j].name = turn.tool_calls[i].name
         /\ turn.tool_calls[j].arguments = turn.tool_calls[i].arguments
         /\ turn.store_calls[i] # "none"
         /\ turn.store_calls[j] # "none") => i = j

\* the step that processes a repeated tool call leaves the tables meals and
\* meal_items, and the ids they give, as they are
RepeatedCallLeavesStore ==
    (/\ turn.pc = "model-called"
     /\ turn'.idx = turn.idx + 1
     /\ RepeatsEarlier(turn.idx + 1)) => UNCHANGED storeVars

\* C4: within one turn, of several tool calls with the same function name
\* and the same raw argument string only the first has its MealStore
\* operation executed; every later one performs no store access and yields
\* the result "duplicate call skipped".
C4_DuplicateToolCallsSkipped ==
    /\ [](SkippedExactlyWhenRepeated /\ ExecutedAtMostOnce)
    /\ [][RepeatedCallLeavesStore]_vars

\* the model called log_meal twice with the same argument string: the first
\* call logged the meal, the second was skipped, and the store holds the one
\* item of the first
C4_Witness ==
    /\ turn.idx = 2
    /\ turn.tool_calls[1].name = "log_meal"
    /\ turn.tool_calls[2].name = "log_meal"
    /\ turn.tool_calls[1].arguments = LogArgs
    /\ turn.tool_calls[2].arguments = LogArgs
    /\ turn.store_calls = <<"log_meal_directly", "none">>
    /\ turn.tool_results_with_ids[1].result.kind = "logged"
    /\ turn.tool_results_with_ids[2].result = Skipped
    /\ Len(meal_items) = 1

\* the row of chat_messages that holds the user message of the turn
UserMessageInLog ==
    \E i \in 1..Len(chat_messages) :
        /\ chat_messages[i].id = turn.message_id
        /\ chat_messages[i].role = "user"
        /\ chat_messages[i].user_id = turn.user_id
        /\ chat_messages[i].content = turn.content
        /\ chat_messages[i].chat_type = CHAT_TYPE

\* C5: in every turn the user message is inserted into the message log
\* before intent classification starts, and it is still in the log when the
\* turn ends, also when classification, a model call or a tool execution
\* fails afterwards.  (A turn whose insert itself raises ends before
\* classification, with no row.)
C5_UserMessagePersisted ==
    /\ turn.pc = "received" => turn.classify_calls = 0 /\ UserMessageInLog
    /\ turn.classify_calls > 0 => UserMessageInLog
    /\ turn.pc \in {"classified", "context-loaded", "model-called", "tools-executed",
                    "synthesized", "persisted"} => UserMessageInLog
    /\ (turn.pc = "failed" /\ turn.failed_at # "insert") => UserMessageInLog
    /\ (turn.pc = "failed" /\ turn.failed_at = "insert") =>
            turn.classify_calls = 0 /\ turn.completions = 0

\* a turn that ended with an error in the second of two tool calls, after
\* the first had written to the store: its user message is in the log
C5_Witness ==
    /\ turn.pc = "failed"
    /\ turn.failed_at = "tool"
    /\ turn.reply.status = 500
    /\ turn.classify_calls = 1
    /\ turn.idx = 1
    /\ Len(meal_items) = 1
    /\ UserMessageInLog

\* c and d are the same character, or c is the upper-case letter of d
FoldsTo(c, d) ==
    c = d \/ \E i \in 1..Len(UpperChars) : UpperChars[i] = c /\ LowerChars[i] = d

\* the text is the label, in any case of its letters, between any number of
\* whitespace characters
SpellsLabel(text, label) ==
    \E a \in 0..Len(text) :
        /\ a + Len(label) <= Len(text)
        /\ \A k \in 1..a : text[k] \in Whitespace
        /\ \A k \in 1..Len(label) : FoldsTo(text[a + k], label[k])
        /\ \A k \in (a + Len(label) + 1)..Len(text) : text[k] \in Whitespace

\* C6: classify_intent returns one of log, query, stats, modify, analyze,
\* chat and never raises: the model's output when, trimmed and lower-cased,
\* it is one of the six labels, and chat when the output is empty, is any
\* other text, or the call of the model throws; the model is called exactly
\* once.
C6_ClassifierTotalDefaultsToChat ==
    /\ turn.failed_at # "classify"
    /\ turn.pc = "classified" =>
        /\ turn.classify_calls = 1
        /\ Len(turn.classifier) = 1
        /\ turn.intent \in VALID_INTENTS
        /\ LET response == turn.classifier[1]
               labels == { l \in VALID_INTENTS :
                             /\ ~response.raised
                             /\ response.has_content
                             /\ SpellsLabel(response.content, l) }
           IN  /\ \A l \in labels : turn.intent = l
               /\ labels = {} => turn.intent = IntentChat
    /\ turn.pc \notin {"idle", "received"} /\ turn.failed_at # "insert" =>
            turn.classify_calls = 1

\* the model answered " Query\n": the turn is classified as query, with one
\* call of the model
C6_Witness ==
    /\ turn.pc = "classified"
    /\ turn.classifier = <<Completion(<<" ", "Q", "u", "e", "r", "y", "\n">>)>>
    /\ turn.intent = IntentQuery
    /\ turn.classify_calls = 1

\* the key has no Meal, or its Meal has no item whose name contains the name
BadTarget(u, d, t, n) ==
    \/ ~HasMeal(u, d, t)
    \/ n # NoText /\ Matches(Items(MealOf(u, d, t).id), n) = {}

\* the call returned a "not found" message, raised nothing and left the
\* store as it was
ReturnsNotFound(out, db) ==
    /\ ~out.result.raised
    /\ ~out.result.success
    /\ out.result.kind \in {"no_meal", "not_found"}
    /\ out.db = db

\* C11: a Delete or an Update that targets a (user, date, meal_type) with no
\* Meal, or a food name that matches no item of the Meal, returns a "not
\* found" message without raising and leaves every Meal and MealItem
\* unchanged; the same call repeated returns the same result, again with no
\* change to the store.
C11_NotFoundIsNoOp ==
    \A u \in Users, d \in Dates, t \in OpMealTypes, e \in MaybeSingleEmpty :
        /\ \A n \in FoodNames \cup {NoText} :
            BadTarget(u, d, t, n) =>
                LET first  == delete_meal_data(DB, u, d, t, n, e)
                    second == delete_meal_data(first.db, u, d, t, n, e)
                IN  /\ ReturnsNotFound(first, DB)
                    /\ ReturnsNotFound(second, DB)
                    /\ second.result = first.result
        /\ \A n \in FoodNames, nf \in NewFoods :
            BadTarget(u, d, t, n) =>
                LET first  == update_meal_data(DB, u, d, t, n, nf, e)
                    second == update_meal_data(first.db, u, d, t, n, nf, e)
                IN  /\ ReturnsNotFound(first, DB)
                    /\ ReturnsNotFound(second, DB)
                    /\ second.result = first.result

\* what the code does on a bad target: the store is left as it was and the
\* call repeated does the same as the first; a food name that matches no
\* item of an existing Meal gets the "not found" message; a key with no Meal
\* gets the "no record" message when the client library answers a select of
\* no row with a response, and AttributeError when it answers None
BadTargetLeavesStore ==
    \A u \in Users, d \in Dates, t \in OpMealTypes, e \in MaybeSingleEmpty,
       n \in FoodNames \cup {NoText}, nf \in NewFoods :
        BadTarget(u, d, t, n) =>
            LET del == delete_meal_data(DB, u, d, t, n, e)
                upd == update_meal_data(DB, u, d, t, n, nf, e)
            IN  /\ del.db = DB
                /\ delete_meal_data(del.db, u, d, t, n, e) = del
                /\ IF HasMeal(u, d, t)
                   THEN ReturnsNotFound(del, DB) /\ del.result.kind = "not_found"
                   ELSE IF e = "None"
                        THEN del.result.raised /\ del.result.kind = "AttributeError"
                        ELSE ReturnsNotFound(del, DB) /\ del.result.kind = "no_meal"
                /\ n # NoText =>
                    /\ upd.db = DB
                    /\ update_meal_data(upd.db, u, d, t, n, nf, e) = upd
                    /\ IF HasMeal(u, d, t)
                       THEN ReturnsNotFound(upd, DB) /\ upd.result.kind = "not_found"
                       ELSE IF e = "None"
                            THEN upd.result.raised /\ upd.result.kind = "AttributeError"
                            ELSE ReturnsNotFound(upd, DB) /\ upd.result.kind = "no_meal"

\* the argument string is no JSON, or the object it holds lacks a field that
\* the tool's parameters require
Defective(name, a) ==
    \/ a \notin DOMAIN JsonLoads
    \/ \E k \in Required[name] : k \notin DOMAIN JsonLoads[a]

\* the tool call is taken as no action: no MealStore operation, no
\* exception, the store as it was, and no result string of its own
NoAction(out, db) ==
    /\ out.op = "none"
    /\ ~out.raised
    /\ out.db = db
    /\ out.result = NoResult

\* C12 as the spec states it: for each of the four tools, a tool call whose
\* arguments are unparsable JSON or lack a required field makes the parser
\* return "no action" without raising, and the orchestrator performs no
\* MealStore operation for that call.
C12_DefectiveArgumentsAreNoAction ==
    \A name \in ToolNames, a \in RawArguments, u \in Users,
       hour \in Hours, empty \in MaybeSingleEmpty :
        Defective(name, a) =>
            NoAction(ExecuteToolCall(DB, u, name, a, hour, empty), DB)

\* the tool calls processed so far and the one the turn failed at: a call of
\* log_meal, delete_meal or update_meal with defective arguments called no
\* MealStore operation, has the result "completed", and is not what failed
\* the turn; a call of get_meals called get_meals_data
DefectiveCallsProcessed ==
    /\ \A i \in 1..turn.idx :
        ~RepeatsEarlier(i) =>
            LET call == turn.tool_calls[i]
            IN  IF call.name = "get_meals"
                THEN turn.store_calls[i] = "get_meals_data"
                ELSE Defective(call.name, call.arguments) =>
                        /\ turn.store_calls[i] = "none"
                        /\ turn.tool_results_with_ids[i].result = Completed
    /\ (turn.pc = "failed" /\ turn.failed_at = "tool") =>
            LET call == turn.tool_calls[turn.idx + 1]
            IN  call.name # "get_meals" => ~Defective(call.name, call.arguments)

\* C12, amended: for log_meal, delete_meal and update_meal, a tool call whose
\* arguments are unparsable JSON or lack a required top-level field
\* (meal_type; foods; old_food_name, new_food) makes the parser return None
\* without raising; the orchestrator then performs no MealStore operation for
\* that call, records the result "completed" and goes on with the turn.
\* parse_get_meals_args never returns None: on unparsable JSON it falls back
\* to today's date and the meal type "all", and get_meals_data is executed.
\* The parsers are checked on every argument string, and the dispatch on
\* every defective call the loop could be at, in every state where it is at
\* a tool call.
C12_DefectiveArgumentsExceptLookup ==
    /\ \A a \in RawArguments :
        /\ Defective("log_meal", a) => IsNone(parse_log_meal_args(a))
        /\ Defective("delete_meal", a) => IsNone(parse_delete_meal_args(a))
        /\ Defective("update_meal", a) => IsNone(parse_update_meal_args(a))
        /\ Defective("get_meals", a) =>
                parse_get_meals_args(a) = [date |-> get_today_local, meal_type |-> "all"]
        /\ \A name \in ToolNames :
            (turn.pc = "model-called" /\ Defective(name, a)) =>
                \A u \in Users, hour \in Hours, empty \in MaybeSingleEmpty :
                    LET out == ExecuteToolCall(DB, u, name, a, hour, empty)
                    IN  IF name = "get_meals"
                        THEN /\ out.op = "get_meals_data"
                             /\ ~out.raised
                             /\ out.db = DB
                             /\ out.result =
                                    MessageOf(get_meals_data(DB, u, get_today_local,
                                                             "all").result)
                        ELSE NoAction(out, DB)
    /\ DefectiveCallsProcessed

\* a turn answered 200 whose only tool call was update_meal without
\* new_food: no MealStore operation was called for it and the action result
\* is "completed"
C12_Witness ==
    /\ turn.pc = "persisted"
    /\ turn.reply.status = 200
    /\ Len(turn.tool_calls) = 1
    /\ turn.tool_calls[1].name = "update_meal"
    /\ turn.tool_calls[1].arguments = UpdateArgsNoFood
    /\ turn.store_calls = <<"none">>
    /\ turn.reply.action_result = <<Completed>>

\* C13: in every turn whose classified intent is query, the get_meals lookup
\* is executed against the MealStore before the reply is produced: the first
\* call of the model forces get_meals, the lookup call is among the turn's
\* tool calls, and get_meals_data has been called for the first of them by
\* the time the tool calls are done, also when the model answers with text.
C13_QueryAlwaysLooksUp ==
    (turn.intent = IntentQuery /\ turn.completions >= 1 /\ turn.pc # "failed") =>
        /\ turn.request.tools = <<"get_meals">>
        /\ turn.request.tool_choice = "get_meals"
        /\ turn.tool_calls # <<>>
        /\ \A i \in 1..Len(turn.tool_calls) : turn.tool_calls[i].name = "get_meals"
        /\ turn.pc # "synthesized" \/ turn.idx = Len(turn.tool_calls)
        /\ turn.idx >= 1 => turn.store_calls[1] = "get_meals_data"
        /\ turn.pc \in {"tools-executed", "synthesized", "persisted"} =>
            /\ turn.idx = Len(turn.tool_calls)
            /\ \A i \in 1..turn.idx :
                   turn.store_calls[i] = "get_meals_data" \/ RepeatsEarlier(i)
        /\ turn.reply.status = 200 =>
            /\ turn.reply.has_action_result
            /\ turn.reply.action_result[1].kind \in {"no_records", "meals"}

\* a query turn answered 200 with the text of the first response of the
\* model, in which the lookup found the meal logged before
C13_Witness ==
    /\ turn.intent = IntentQuery
    /\ turn.pc = "persisted"
    /\ turn.completions = 1
    /\ turn.reply.message = Said("reply")
    /\ turn.store_calls[1] = "get_meals_data"
    /\ turn.reply.action_result[1].kind = "meals"

\* the tools and the tool choice the spec gives for an intent
ToolsOfIntent(intent) ==
    CASE intent = IntentLog     -> [tools |-> <<"log_meal">>, tool_choice |-> "auto"]
      [] intent = IntentQuery   -> [tools |-> <<"get_meals">>, tool_choice |-> "get_meals"]
      [] intent = IntentModify  ->
            [tools |-> <<"delete_meal", "update_meal", "log_meal">>, tool_choice |-> "auto"]
      [] intent \in {IntentStats, IntentAnalyze, IntentChat} ->
            [tools |-> <<>>, tool_choice |-> "unset"]

\* C14: the tools and the tool choice sent with the first call of the model
\* depend on the intent alone: log sends only log_meal with choice auto;
\* query only get_meals with the choice forced to get_meals; modify
\* delete_meal, update_meal and log_meal with choice auto; stats, analyze and
\* chat send no tools and no tool choice.
C14_ToolsDependOnIntentAlone ==
    /\ \A intent \in VALID_INTENTS :
        /\ get_tools_for_intent(intent) = ToolsOfIntent(intent).tools
        /\ CompletionParams(intent).tools = ToolsOfIntent(intent).tools
        /\ CompletionParams(intent).tool_choice = ToolsOfIntent(intent).tool_choice
    /\ turn.completions >= 1 =>
        /\ turn.intent \in VALID_INTENTS
        /\ turn.request.tools = ToolsOfIntent(turn.intent).tools
        /\ turn.request.tool_choice = ToolsOfIntent(turn.intent).tool_choice
        /\ \A i \in 1..Len(turn.tool_calls) :
               \E k \in 1..Len(turn.request.tools) :
                   turn.request.tools[k] = turn.tool_calls[i].name

\* a modify turn, with a meal in the store, whose first call of the model
\* was sent the three tools of modify and the choice auto
C14_Witness ==
    /\ turn.intent = IntentModify
    /\ turn.completions = 1
    /\ turn.request.tools = <<"delete_meal", "update_meal", "log_meal">>
    /\ turn.request.tool_choice = "auto"
    /\ Len(turn.tool_calls) = 2
    /\ Len(meals) = 1

\* the meal type the spec gives for an hour of the day
MealTypeOfHour(hour) ==
    IF hour \in 5..9 THEN "breakfast"
    ELSE IF hour \in 10..14 THEN "lunch"
    ELSE IF hour \in 15..20 THEN "dinner"
    ELSE "snack"

\* C15: when a log_meal tool call does not specify meal_type, the foods are
\* still logged, under the meal type inferred from the server's local hour:
\* 05-09 gives breakfast, 10-14 lunch, 15-20 dinner, and every other hour
\* snack.
C15_MissingMealTypeIsInferred ==
    /\ \A hour \in 0..23 : infer_meal_type(hour) = MealTypeOfHour(hour)
    /\ \A i \in 1..turn.idx :
        (/\ turn.tool_calls[i].name = "log_meal"
         /\ turn.tool_calls[i].arguments = LogArgsNoType
         /\ ~RepeatsEarlier(i)) =>
            /\ turn.store_calls[i] = "log_meal_directly"
            /\ turn.tool_results_with_ids[i].result.kind = "logged"
            /\ \E hour \in Hours, k \in 1..Len(meals) :
                   meals[k].meal_type = MealTypeOfHour(hour)

(***************************************************************************)
(* services/user_context.py: fetch_user_context                            *)
(***************************************************************************)
\* the days the model knows, as date.isoformat() writes them: in the order
\* of the calendar, which is also the order of the strings
Calendar ==
    <<"2024-04-23", "2024-04-24", "2024-04-25", "2024-04-26", "2024-04-27",
      "2024-04-28", "2024-04-29", "2024-04-30", "2024-05-01", "2024-05-02">>

\* a date as the number of its day in the calendar; timedelta(days=n) adds
\* n to it
format_date(d) == Calendar[d]

\* the day of an ISO date string
DateOrdinal(s) == CHOOSE d \in 1..Len(Calendar) : Calendar[d] = s

\* date.today()
date_today == DateOrdinal(get_today_local)

\* seven_days_ago = date.today() - timedelta(days=6)
WindowDays == 6

\* for _ in range(7)
StreakLookups == 7

\* .gte("date", lo).lte("date", hi) on ISO date strings
Between(s, lo, hi) ==
    DateOrdinal(lo) <= DateOrdinal(s) /\ DateOrdinal(s) <= DateOrdinal(hi)

\* the rows in the order of their dates: .order("date", desc=False)
RECURSIVE OrderByDate(_, _)
OrderByDate(rows, d) ==
    IF d > Len(Calendar) THEN <<>>
    ELSE SelectSeq(rows, LAMBDA r : r.date = format_date(d)) \o OrderByDate(rows, d + 1)

\* the weights of progress_logs, in tenths of a kilogram
WeightValues == {700, 701, 703, 704}

\* last_weight - first_weight on floats: the pairs (last, first) of weights
\* whose difference as a double is more than the double nearest to the
\* decimal difference, e.g. 70.4 - 70.1 = 0.30000000000001137 ...
RoundedUp ==
    {<<700, 701>>, <<700, 703>>, <<703, 701>>, <<704, 700>>, <<704, 701>>, <<704, 703>>}

\* ... and those whose difference as a double is less than it, e.g.
\* 70.3 - 70.0 = 0.29999999999999716
RoundedDown ==
    {<<700, 704>>, <<701, 700>>, <<701, 703>>, <<701, 704>>, <<703, 700>>, <<703, 704>>}

\* diff = last_weight - first_weight: the decimal difference in tenths, and
\* the side of it the double is on
FloatSubtract(last, first) ==
    [tenths |-> last - first,
     excess |-> IF <<last, first>> \in RoundedUp THEN 1
                ELSE IF <<last, first>> \in RoundedDown THEN -1 ELSE 0]

\* diff > t / 10 and diff < t / 10, for a literal of t tenths
FloatGreater(diff, t) == diff.tenths > t \/ (diff.tenths = t /\ diff.excess > 0)
FloatLess(diff, t) == diff.tenths < t \/ (diff.tenths = t /\ diff.excess < 0)

\* 3. the weight records of the last seven days, oldest first
recent_weights(progress_logs, user_id) ==
    LET rows == SelectSeq(progress_logs,
                    LAMBDA r : /\ r.user_id = user_id
                               /\ Between(r.date, format_date(date_today - WindowDays),
                                          get_today_local))
        weight_logs == OrderByDate(rows, 1)
    IN  [i \in 1..Len(weight_logs) |->
            [date |-> weight_logs[i].date, weight |-> weight_logs[i].weight_kg]]

\* 5. weight trend
weight_trend(weights) ==
    IF Len(weights) >= 2
    THEN LET diff == FloatSubtract(weights[Len(weights)].weight, weights[1].weight)
         IN  IF FloatGreater(diff, 3) THEN "up"
             ELSE IF FloatLess(diff, -3) THEN "down"
             ELSE "stable"
    ELSE "unknown"

\* 6. the meals of the last seven days
weekly_meals(db, user_id) ==
    SelectSeq(db.meals,
        LAMBDA m : /\ m.user_id = user_id
                   /\ Between(m.date, format_date(date_today - WindowDays),
                              get_today_local))

\* the dict daily_calories: for each date of the meals, the sum of their
\* total_calories
daily_calories(ms) ==
    [d \in {ms[i].date : i \in 1..Len(ms)} |->
        SumTotals(SelectSeq(ms, LAMBDA m : m.date = d))]

\* sorted(daily_calories.items()) as DailyCalorieRecords
RECURSIVE recent_daily_calories(_, _)
recent_daily_calories(daily, d) ==
    IF d > Len(Calendar) THEN <<>>
    ELSE (IF format_date(d) \in DOMAIN daily
          THEN <<[date |-> format_date(d), calories |-> daily[format_date(d)]]>>
          ELSE <<>>) \o recent_daily_calories(daily, d + 1)

\* sum(daily_calories.values())
RECURSIVE SumRecords(_)
SumRecords(s) == IF s = <<>> THEN 0 ELSE s[1].calories + SumRecords(Tail(s))

\* weekly_avg_calories that divides by the seven days of the window
weekly_avg_caloriesPerWeek(ms) ==
    IF ms = <<>> THEN 0
    ELSE PyRound(SumRecords(recent_daily_calories(daily_calories(ms), 1)), WindowDays + 1)

\* round(total_cal / days) if days > 0 else 0, and 0 without meals
weekly_avg_calories(ms) ==
    IF ms = <<>> THEN 0
    ELSE LET daily == daily_calories(ms)
             days == Cardinality(DOMAIN daily)
             total_cal == SumRecords(recent_daily_calories(daily, 1))
         IN  IF days > 0 THEN PyRound(total_cal, days) ELSE 0

\* meals_check: .eq("user_id", user_id).eq("date", date_str).limit(1)
meals_check(db, user_id, date_str) ==
    SelectSeq(db.meals, LAMBDA m : m.user_id = user_id /\ m.date = date_str)

\* the loop of 7.: the days with a meal, from check_date backwards, in at
\* most `lookups` lookups
RECURSIVE CountBack(_, _, _, _)
CountBack(db, user_id, check_date, lookups) ==
    IF lookups = 0 THEN 0
    ELSE IF meals_check(db, user_id, format_date(check_date)) # <<>>
    THEN 1 + CountBack(db, user_id, check_date - 1, lookups - 1)
    ELSE 0

\* consecutive_days that starts the walk at today
consecutive_daysFromToday(db, user_id) ==
    CountBack(db, user_id, date_today, StreakLookups)

\* 7. consecutive days: the walk starts at yesterday
consecutive_days(db, user_id) ==
    CountBack(db, user_id, date_today - 1, StreakLookups)

\* what .maybe_single().execute() gives for the user_profiles row of the
\* user: a response with the row, or, when there is none, the value None or
\* a response whose data is None, which is up to the client library
ProfileResults == {"row"} \cup MaybeSingleEmpty

\* fetch_user_context: the fields of UserContext the prompts take the
\* weights, the calories and the streak from.  `profile_result.data` raises
\* when there is no profile and maybe_single() gave None.
fetch_user_context(db, progress_logs, profile_result, user_id) ==
    IF profile_result = "None"
    THEN [raised |-> TRUE]
    ELSE LET weights == recent_weights(progress_logs, user_id)
             ms == weekly_meals(db, user_id)
         IN  [raised                |-> FALSE,
              today                 |-> get_today_local,
              today_calories        |-> SumTotals(meals_check(db, user_id, get_today_local)),
              recent_weights        |-> weights,
              weight_trend          |-> weight_trend(weights),
              weekly_avg_calories   |-> weekly_avg_calories(ms),
              recent_daily_calories |->
                  IF ms = <<>> THEN <<>>
                  ELSE recent_daily_calories(daily_calories(ms), 1),
              consecutive_days      |-> consecutive_days(db, user_id)]

(***************************************************************************)
(* SpecContext: fetch_user_context in a request that has been classified,  *)
(* on a store that earlier requests have filled                            *)
(***************************************************************************)
\* the breakfasts of u1 on the days of a set, the latest first
RECURSIVE Breakfasts(_, _)
Breakfasts(days, d) ==
    IF d = 0 THEN <<>>
    ELSE (IF d \in days
          THEN <<[user_id |-> "u1", date |-> format_date(d), meal_type |-> "breakfast",
                  total_calories |-> d]>>
          ELSE <<>>) \o Breakfasts(days, d - 1)

\* a lunch of u1 on a day, or none (day 0)
Lunch(d) ==
    IF d = 0 THEN <<>>
    ELSE <<[user_id |-> "u1", date |-> format_date(d), meal_type |-> "lunch",
            total_calories |-> 4]>>

\* the meals tables the requests start with: two meals of another user,
\* breakfasts of u1 on any days up to today, and a lunch of u1 on the first
\* day of the window or on the day after today
ContextMeals ==
    { LET rows == <<[user_id |-> "u2", date |-> format_date(date_today - 1),
                     meal_type |-> "dinner", total_calories |-> 7],
                    [user_id |-> "u2", date |-> get_today_local,
                     meal_type |-> "dinner", total_calories |-> 7]>>
                  \o Breakfasts(days, date_today) \o Lunch(d)
      IN  [i \in 1..Len(rows) |->
              [id |-> i, user_id |-> rows[i].user_id, date |-> rows[i].date,
               meal_type |-> rows[i].meal_type,
               total_calories |-> rows[i].total_calories]]
      : days \in SUBSET (1..date_today),
        d \in {0, date_today - WindowDays, date_today + 1} }

\* one item for each meal, with the calories of the meal
ContextItems(ms) ==
    [i \in 1..Len(ms) |->
        ItemRows(ms[i].id,
                 <<[name |-> rice, quantity |-> 2, calories |-> ms[i].total_calories,
                    protein |-> 0, carbs |-> 0, fat |-> 0]>>, i)[1]]

\* a row of progress_logs, or none (weight 0)
WeightLog(user_id, d, w) ==
    IF w = 0 THEN <<>>
    ELSE <<[user_id |-> user_id, date |-> format_date(d), weight_kg |-> w]>>

\* the tables progress_logs may be: a weight of another user, and weights
\* of u1 today, on the day before the window, in the middle of the window
\* and on its first day, in this order in the table
ProgressLogs ==
    { WeightLog("u2", date_today - 1, 704) \o WeightLog("u1", date_today, last)
        \o WeightLog("u1", date_today - WindowDays - 1, before)
        \o WeightLog("u1", date_today - 3, middle)
        \o WeightLog("u1", date_today - WindowDays, first)
      : last \in WeightValues \cup {0}, before \in {0, 704},
        middle \in {0, 704}, first \in WeightValues \cup {0} }

InitContext ==
    /\ meals \in ContextMeals
    /\ meal_items = ContextItems(meals)
    /\ nextMealId = Len(meals) + 1
    /\ nextItemId = Len(meals) + 1
    /\ chat_messages = InsertMessage(<<>>, 1, "u1", "user", Said("hello"))
    /\ nextMessageId = 2
    /\ turn = [NoTurn EXCEPT !.pc = "classified", !.user_id = "u1",
                             !.content = Said("hello"), !.message_id = 1,
                             !.intent = IntentStats, !.classify_calls = 1]

\* 3. user_context = await fetch_user_context(db, user_id)
FetchUserContext ==
    /\ turn.pc = "classified"
    /\ turn.intent # IntentChat
    /\ \E progress_logs \in ProgressLogs, profile_result \in ProfileResults :
        LET context == fetch_user_context(DB, progress_logs, profile_result, turn.user_id)
        IN  /\ ~context.raised
            /\ turn' = [turn EXCEPT !.pc = "context-loaded", !.user_context = context]
    /\ UNCHANGED <<storeVars, chat_messages, nextMessageId>>

\* fetch_user_context raises
FetchUserContextRaises ==
    /\ turn.pc = "classified"
    /\ turn.intent # IntentChat
    /\ \E progress_logs \in ProgressLogs, profile_result \in ProfileResults :
        fetch_user_context(DB, progress_logs, profile_result, turn.user_id).raised
    /\ Fails("context")
    /\ UNCHANGED <<storeVars, chat_messages, nextMessageId>>

NextContext == FetchUserContext \/ FetchUserContextRaises

SpecContext == InitContext /\ [][NextContext]_vars

(***************************************************************************)
(* Properties of fetch_user_context                                        *)
(***************************************************************************)
\* C16: for the date-ascending weight records in the 7-day window ending
\* today, the trend is unknown iff there are fewer than 2 records; otherwise
\* it depends only on d = last weight - first weight: up iff d > 0.3 kg,
\* down iff d < -0.3 kg, and stable otherwise (a difference of exactly +0.3
\* or -0.3 is stable); records in between never change the result.
C16_TrendFromFirstAndLast ==
    turn.pc = "context-loaded" =>
        LET ws == turn.user_context.recent_weights
            trend == turn.user_context.weight_trend
            d == ws[Len(ws)].weight - ws[1].weight
        IN  /\ trend = "unknown" <=> Len(ws) < 2
            /\ Len(ws) >= 2 =>
                /\ trend = "up" <=> d > 3
                /\ trend = "down" <=> d < -3
                /\ trend = "stable" <=> (-3 <= d /\ d <= 3)

\* the user has a meal on the day
HasMealOn(user_id, d) ==
    \E i \in 1..Len(meals) : meals[i].user_id = user_id /\ meals[i].date = Calendar[d]

\* C17: consecutive_days is the number k, 0 <= k <= 7, such that each of the
\* k calendar days immediately before today has at least one Meal of the
\* user and either k = 7 or the day before those has none; meals dated today
\* or after a gap do not change the count.
C17_StreakCountsDaysBeforeToday ==
    turn.pc = "context-loaded" =>
        LET k == turn.user_context.consecutive_days
        IN  /\ k \in 0..7
            /\ \A j \in 1..k : HasMealOn(turn.user_id, date_today - j)
            /\ k = 7 \/ ~HasMealOn(turn.user_id, date_today - k - 1)

\* meals today, yesterday and the day before, none three days ago, and one
\* four days ago: the streak is 2
C17_Witness ==
    /\ turn.pc = "context-loaded"
    /\ turn.user_context.consecutive_days = 2
    /\ HasMealOn(turn.user_id, date_today)
    /\ ~HasMealOn(turn.user_id, date_today - 3)
    /\ HasMealOn(turn.user_id, date_today - 4)

\* the meals of the user in the closed window today-6 .. today, as places in
\* the table
MealsInWindow ==
    { i \in 1..Len(meals) :
        /\ meals[i].user_id = turn.user_id
        /\ \E d \in (date_today - 6)..date_today : meals[i].date = Calendar[d] }

\* the sum of total_calories of the meals at a set of places
RECURSIVE TotalOf(_)
TotalOf(places) ==
    IF places = {} THEN 0
    ELSE LET i == CHOOSE i \in places : TRUE
         IN  meals[i].total_calories + TotalOf(places \ {i})

\* C18: weekly_avg_calories is 0 when the user has no Meal dated in the
\* closed window today-6..today; otherwise it is the sum of total_calories
\* of all Meals in that window divided by the number of distinct dates in
\* the window that have at least one Meal, rounded to an integer (to the
\* nearest, a half to the even one); the daily series has one entry per such
\* date, in ascending date order, holding that date's sum.
C18_WeeklyAverageOverDaysWithMeals ==
    turn.pc = "context-loaded" =>
        LET avg == turn.user_context.weekly_avg_calories
            series == turn.user_context.recent_daily_calories
            dates == { meals[i].date : i \in MealsInWindow }
            days == Cardinality(dates)
            total == TotalOf(MealsInWindow)
            rest == total - avg * days
        IN  /\ MealsInWindow = {} => avg = 0 /\ series = <<>>
            /\ MealsInWindow # {} =>
                /\ 2 * rest <= days /\ -2 * rest <= days
                /\ (2 * rest = days \/ -2 * rest = days) => avg % 2 = 0
            /\ Len(series) = days
            /\ \A n \in 1..Len(series) :
                /\ series[n].date \in dates
                /\ series[n].calories =
                       TotalOf({ i \in MealsInWindow : meals[i].date = series[n].date })
                /\ n > 1 => DateOrdinal(series[n - 1].date) < DateOrdinal(series[n].date)

\* a breakfast and a lunch on the first day of the window and a breakfast
\* today, and a meal on the day before the window: 16 kcal on two days, 8
\* a day
C18_Witness ==
    /\ turn.pc = "context-loaded"
    /\ turn.user_context.weekly_avg_calories = 8
    /\ Len(turn.user_context.recent_daily_calories) = 2
    /\ turn.user_context.recent_daily_calories[1] =
           [date |-> Calendar[date_today - 6], calories |-> 7]
    /\ HasMealOn(turn.user_id, date_today - 7)

\* the results of the tool calls of the turn, in the order of the calls
ToolResults ==
    [i \in 1..Len(turn.tool_results_with_ids) |-> turn.tool_results_with_ids[i].result]

\* this step makes the follow-up call of the model
FollowUpIssued == turn.completions = 1 /\ turn'.completions = 2

\* the follow-up call is made only after a first response with tool calls
\* and no text, when all its tool calls are processed; it is the only step
\* then; and a first response with text is the reply, with no further call
FollowUpExactlyWhenNoText ==
    /\ FollowUpIssued =>
        /\ turn.pc = "tools-executed"
        /\ turn.tool_calls # <<>>
        /\ turn.idx = Len(turn.tool_calls)
        /\ IsEmpty(turn.assistant_content)
    /\ (turn.pc = "tools-executed" /\ IsEmpty(turn.assistant_content) /\ turn' # turn) =>
            FollowUpIssued
    /\ (turn.pc = "tools-executed" /\ ~IsEmpty(turn.assistant_content) /\ turn' # turn) =>
        /\ turn'.completions = 1
        /\ turn'.assistant_content = turn.assistant_content
        /\ turn'.pc = "persisted" => turn'.reply.message = turn.assistant_content
    /\ (FollowUpIssued /\ turn'.pc = "synthesized") =>
        /\ ~IsEmpty(turn'.assistant_content)
        /\ \/ turn'.assistant_content.text \in ModelTexts \ {""}
           \/ turn'.assistant_content = Joined(ToolResults)
    /\ (turn.pc = "synthesized" /\ turn'.pc = "persisted" /\ turn.completions = 2) =>
            turn'.reply.message = turn.assistant_content

\* never more than two calls of the model; a second one only in a turn with
\* tool calls; the joined tool results are not empty
TwoCallsAtMost ==
    /\ turn.completions \in 0..2
    /\ turn.completions = 2 => turn.tool_calls # <<>> /\ turn.idx = Len(turn.tool_calls)
    /\ (turn.pc = "synthesized" /\ turn.tool_calls = <<>>) => turn.completions = 1
    /\ turn.assistant_content.parts # <<>> =>
        /\ turn.completions = 2
        /\ turn.assistant_content.parts = ToolResults
        /\ \A i \in 1..Len(ToolResults) : ToolResults[i] # NoResult
    /\ turn.reply.status = 200 =>
        /\ turn.reply.message = turn.assistant_content
        /\ ~IsEmpty(turn.reply.message)

\* C19: in a turn whose tool calls were all processed, a second (follow-up)
\* model call is issued if and only if the first response contains at least
\* one tool call and no assistant text; when the first response has text
\* alongside tool calls that text is the reply, when the follow-up returns
\* text that text is the reply, and when the follow-up returns nothing the
\* reply is the tool result strings joined by newlines, which is non-empty.
C19_FollowUpOnlyWithoutText ==
    /\ []TwoCallsAtMost
    /\ [][FollowUpExactlyWhenNoText]_vars

\* a turn answered with the joined results of its two tool calls: the first
\* response had no text and the follow-up returned nothing
C19_Witness ==
    /\ turn.pc = "persisted"
    /\ turn.completions = 2
    /\ Len(turn.tool_calls) = 2
    /\ turn.reply.status = 200
    /\ turn.reply.message = Joined(ToolResults)
    /\ ToolResults[2] = Skipped

\* a call of the model or the execution of a tool raised in this turn
RaisedInModelOrTool ==
    turn.pc = "failed" /\ turn.failed_at \in {"model", "tool", "follow-up"}

\* no assistant message was saved after the user message of the turn
NoAssistantMessage ==
    \A i \in 1..Len(chat_messages) :
        chat_messages[i].role = "assistant" => chat_messages[i].id < turn.message_id

\* the turn that raised is answered 500, without an assistant message, and
\* the tool calls after the one that raised are not executed
RaisedTurnFails ==
    RaisedInModelOrTool =>
        /\ turn.reply.status = 500
        /\ NoAssistantMessage
        /\ UserMessageInLog
        /\ Len(turn.store_calls) = turn.idx
        /\ Len(turn.tool_results_with_ids) = turn.idx
        /\ turn.failed_at = "tool" => turn.idx < Len(turn.tool_calls)
        /\ turn.failed_at = "model" => turn.tool_calls = <<>>

\* the step in which the exception is raised, and the answer of the endpoint
\* after it, leave the store and the message log as the turn had made them
NothingRolledBack ==
    /\ (turn.pc # "failed" /\ turn'.pc = "failed"
        /\ turn'.failed_at \in {"model", "tool", "follow-up"}) =>
            UNCHANGED <<storeVars, chat_messages, nextMessageId>>
    /\ RaisedInModelOrTool => UNCHANGED <<storeVars, chat_messages, nextMessageId>>

\* C20: if a model call or a tool execution raises during a turn, the
\* exception propagates to the endpoint, which answers with an internal
\* error; no assistant message is persisted for that turn, the remaining
\* tool calls are not executed, and every store mutation already applied by
\* earlier tool calls of the same turn stays applied (nothing is rolled
\* back).
C20_ExceptionFailsTurnWithoutRollback ==
    /\ []RaisedTurnFails
    /\ [][NothingRolledBack]_vars

\* the first tool call of a turn logged a meal and the second raised: the
\* turn is answered 500, the meal is in the store and the log holds the
\* user message only
C20_Witness ==
    /\ RaisedInModelOrTool
    /\ turn.failed_at = "tool"
    /\ Len(turn.tool_calls) = 2
    /\ turn.store_calls = <<"log_meal_directly">>
    /\ Len(meals) = 1
    /\ Len(meal_items) = 1
    /\ Len(chat_messages) = 1
    /\ chat_messages[1].role = "user"

(***************************************************************************)
(* The message log of the two chat surfaces: services/chat_service.py and  *)
(* api/v1/chat.py (diet), api/v1/medication.py (medication)                *)
(***************************************************************************)
\* the users of the two chats
ChatUsers == {"u1", "u2"}

\* "chat_type": "medication"
MEDICATION_TYPE == "medication"

\* the query parameter limit: one row, or the default of 50
Limits == {1, 50}

\* db.table("chat_messages").insert({..., "chat_type": "medication"})
InsertMedicationMessage(msgs, id, user_id, role, content) ==
    Append(msgs, [id |-> id, user_id |-> user_id, role |-> role, content |-> content,
                  chat_type |-> MEDICATION_TYPE])

\* .order("created_at", desc=True).limit(limit), reversed: the last `limit`
\* rows, the oldest of them first (rows are created in the order of the log)
LastRows(rows, limit) ==
    SubSeq(rows, Max(1, Len(rows) - limit + 1), Len(rows))

get_chat_history(msgs, user_id, limit) ==
    LastRows(SelectSeq(msgs, LAMBDA m : m.user_id = user_id /\ m.chat_type = CHAT_TYPE),
             limit)

\* clear_chat_history that deletes the messages of the user on both surfaces
clear_chat_historyBothTypes(msgs, user_id) ==
    SelectSeq(msgs, LAMBDA m : m.user_id # user_id)

clear_chat_history(msgs, user_id) ==
    SelectSeq(msgs, LAMBDA m : ~(m.user_id = user_id /\ m.chat_type = CHAT_TYPE))

get_medication_chat_history(msgs, user_id, limit) ==
    LastRows(SelectSeq(msgs, LAMBDA m : m.user_id = user_id
                                        /\ m.chat_type = MEDICATION_TYPE),
             limit)

clear_medication_chat_history(msgs, user_id) ==
    SelectSeq(msgs, LAMBDA m : ~(m.user_id = user_id /\ m.chat_type = MEDICATION_TYPE))

\* the request answered last: the operation, its user and its surface, and
\* the messages of a listing
Answered(operation, user_id, chat_type, messages) ==
    [pc |-> "answered", operation |-> operation, user_id |-> user_id,
     chat_type |-> chat_type, messages |-> messages]

(***************************************************************************)
(* SpecHistory: the requests of the two chats that read and write          *)
(* chat_messages, one at a time                                            *)
(***************************************************************************)
\* POST /chat/message: process_message saves the user message and, unless
\* an exception ends the turn, the assistant message
PostMessage ==
    \E u \in ChatUsers, saved \in 1..2 :
        /\ nextMessageId + saved - 1 <= MaxHistoryRows
        /\ chat_messages' =
              LET first == InsertMessage(chat_messages, nextMessageId, u, "user",
                                         Said("hello"))
              IN  IF saved = 1 THEN first
                  ELSE InsertMessage(first, nextMessageId + 1, u, "assistant",
                                     Said("reply"))
        /\ nextMessageId' = nextMessageId + saved
        /\ turn' = Answered("process_message", u, CHAT_TYPE, <<>>)
        /\ UNCHANGED storeVars

\* POST /medication/ask: the query and the response are saved; an exception
\* may end the request before either insert
AskMedication ==
    \E u \in ChatUsers, saved \in 0..2 :
        /\ nextMessageId + saved - 1 <= MaxHistoryRows
        /\ chat_messages' =
              LET first == InsertMedicationMessage(chat_messages, nextMessageId, u,
                                                   "user", Said("hello"))
              IN  IF saved = 0 THEN chat_messages
                  ELSE IF saved = 1 THEN first
                  ELSE InsertMedicationMessage(first, nextMessageId + 1, u, "assistant",
                                               Said("reply"))
        /\ nextMessageId' = nextMessageId + saved
        /\ turn' = Answered("ask_medication", u, MEDICATION_TYPE, <<>>)
        /\ UNCHANGED storeVars

\* GET /chat/history
GetChatHistory ==
    \E u \in ChatUsers, limit \in Limits :
        /\ turn' = Answered("get_chat_history", u, CHAT_TYPE,
                            get_chat_history(chat_messages, u, limit))
        /\ UNCHANGED <<storeVars, chat_messages, nextMessageId>>

\* DELETE /chat/history
ClearChatHistory ==
    \E u \in ChatUsers :
        /\ chat_messages' = clear_chat_history(chat_messages, u)
        /\ turn' = Answered("clear_chat_history", u, CHAT_TYPE, <<>>)
        /\ UNCHANGED <<storeVars, nextMessageId>>

\* GET /medication/history
GetMedicationChatHistory ==
    \E u \in ChatUsers, limit \in Limits :
        /\ turn' = Answered("get_medication_chat_history", u, MEDICATION_TYPE,
                            get_medication_chat_history(chat_messages, u, limit))
        /\ UNCHANGED <<storeVars, chat_messages, nextMessageId>>

\* DELETE /medication/history
ClearMedicationChatHistory ==
    \E u \in ChatUsers :
        /\ chat_messages' = clear_medication_chat_history(chat_messages, u)
        /\ turn' = Answered("clear_medication_chat_history", u, MEDICATION_TYPE, <<>>)
        /\ UNCHANGED <<storeVars, nextMessageId>>

NextHistory ==
    \/ PostMessage \/ AskMedication
    \/ GetChatHistory \/ ClearChatHistory
    \/ GetMedicationChatHistory \/ ClearMedicationChatHistory

SpecHistory == Init /\ [][NextHistory]_vars

(***************************************************************************)
(* Properties of the message log                                           *)
(***************************************************************************)
\* the messages that are not those of the user on the surface
NotOf(msgs, user_id, chat_type) ==
    SelectSeq(msgs, LAMBDA m : ~(m.user_id = user_id /\ m.chat_type = chat_type))

\* a listing holds messages of its user and its surface only, all of them
\* rows of the log, and after a clear the log holds none of them
ListedAndClearedOwnOnly ==
    turn.pc = "answered" =>
        /\ \A i \in 1..Len(turn.messages) :
            /\ turn.messages[i].user_id = turn.user_id
            /\ turn.messages[i].chat_type = turn.chat_type
            /\ \E k \in 1..Len(chat_messages) : chat_messages[k] = turn.messages[i]
        /\ turn.operation \in {"get_chat_history", "clear_chat_history",
                               "process_message"} <=> turn.chat_type = CHAT_TYPE
        /\ turn.operation \in {"clear_chat_history", "clear_medication_chat_history"} =>
            \A k \in 1..Len(chat_messages) :
                ~(/\ chat_messages[k].user_id = turn.user_id
                  /\ chat_messages[k].chat_type = turn.chat_type)

\* a request leaves the messages of the other surface and of the other
\* users as they are
OthersUnchanged ==
    turn'.pc = "answered" =>
        NotOf(chat_messages', turn'.user_id, turn'.chat_type)
            = NotOf(chat_messages, turn'.user_id, turn'.chat_type)

\* C21: the diet chat's history and clear-history operations read and delete
\* only messages of the calling user whose chat_type is diet, and the
\* medication ones only those whose chat_type is medication: after any
\* sequence of turns, listings and clears on one surface, the messages of
\* the other surface and of every other user are unchanged and never appear
\* in a listing.
C21_HistoryScopedBySurfaceAndUser ==
    /\ []ListedAndClearedOwnOnly
    /\ [][OthersUnchanged]_vars

\* u1 has cleared the diet history: the log still holds a medication message
\* of u1 and a diet message of u2, and no diet message of u1
C21_Witness ==
    /\ turn.pc = "answered"
    /\ turn.operation = "clear_chat_history"
    /\ turn.user_id = "u1"
    /\ nextMessageId >= 4
    /\ \E k \in 1..Len(chat_messages) :
        chat_messages[k].user_id = "u1" /\ chat_messages[k].chat_type = MEDICATION_TYPE
    /\ \E k \in 1..Len(chat_messages) :
        chat_messages[k].user_id = "u2" /\ chat_messages[k].chat_type = CHAT_TYPE

(***************************************************************************)
(* Properties of the MealStore operations: the data of another user        *)
(***************************************************************************)
\* Meals of a user B for the same date and the meal types A's operations
\* name, with ids no operation of the model gives
OtherMeals ==
    <<[id |-> 100, user_id |-> "u2", date |-> "2024-05-01", meal_type |-> "breakfast",
       total_calories |-> 11],
      [id |-> 101, user_id |-> "u2", date |-> "2024-05-01", meal_type |-> "lunch",
       total_calories |-> 5]>>

\* the items of B's Meals, of the names A logs, deletes and updates
OtherItems ==
    ItemRows(100, <<[name |-> rice, quantity |-> 2, calories |-> 5, protein |-> 5,
                     carbs |-> 7, fat |-> 0],
                    [name |-> egg, quantity |-> 2, calories |-> 6, protein |-> 0,
                     carbs |-> 0, fat |-> 0]>>, 100)
    \o ItemRows(101, <<[name |-> Rice, quantity |-> 2, calories |-> 5, protein |-> 5,
                        carbs |-> 7, fat |-> 0]>>, 102)

\* the store with B's rows in it, before those of A
WithOther(db) ==
    [db EXCEPT !.meals = OtherMeals \o @, !.meal_items = OtherItems \o @]

\* an operation of A did in the store with B's rows what it did without
\* them: the same result, the same rows of A, and B's rows as they were
Isolated(alone, beside) ==
    /\ beside.result = alone.result
    /\ beside.db = WithOther(alone.db)

\* C22: every Log, Query, Delete and Update executed for user A reads and
\* changes only Meals and MealItems owned by A: in two stores that differ
\* only in the data of another user B, A's operation has the same result and
\* leaves the same rows of A, and B's Meals and MealItems are unchanged, also
\* when B has a Meal with the same date, meal type and item names.  (Holding
\* for each operation from equal data of A, it holds for every sequence.)
C22_OtherUsersDataUntouched ==
    /\ \A d \in Dates, t \in OpMealTypes, fs \in FoodLists :
        Isolated(log_meal_directly(DB, "u1", t, d, fs),
                 log_meal_directly(WithOther(DB), "u1", t, d, fs))
    /\ \A d \in Dates, t \in OpMealTypes \cup {"all"} :
        Isolated(get_meals_data(DB, "u1", d, t),
                 get_meals_data(WithOther(DB), "u1", d, t))
    /\ \A d \in Dates, t \in OpMealTypes, n \in FoodNames \cup {NoText},
          e \in MaybeSingleEmpty :
        Isolated(delete_meal_data(DB, "u1", d, t, n, e),
                 delete_meal_data(WithOther(DB), "u1", d, t, n, e))
    /\ \A d \in Dates, t \in OpMealTypes, n \in FoodNames, nf \in NewFoods,
          e \in MaybeSingleEmpty :
        Isolated(update_meal_data(DB, "u1", d, t, n, nf, e),
                 update_meal_data(WithOther(DB), "u1", d, t, n, nf, e))

\* A has a breakfast, B has one of the same date with items of the same
\* names, and A's Delete of the whole breakfast in the store with B's rows
\* leaves exactly B's Meals
C22_Witness ==
    /\ HasMeal("u1", "2024-05-01", "breakfast")
    /\ Len(Items(MealOf("u1", "2024-05-01", "breakfast").id)) >= 2
    /\ \E e \in MaybeSingleEmpty :
        LET out == delete_meal_data(WithOther(DB), "u1", "2024-05-01", "breakfast",
                                    NoText, e)
        IN  /\ out.result.success
            /\ Len(out.db.meals) = Len(meals) + 1
            /\ SelectSeq(out.db.meals, LAMBDA m : m.user_id = "u2") = OtherMeals
            /\ SelectSeq(out.db.meal_items, LAMBDA it : it.meal_id >= 100) = OtherItems

(***************************************************************************)
(* Properties of the conversation pipeline: the order of the steps         *)
(***************************************************************************)
\* the place of a step in the order of the turn
StepRank(pc) ==
    CASE pc = "idle"           -> 0
      [] pc = "received"       -> 1
      [] pc = "classified"     -> 2
      [] pc = "context-loaded" -> 3
      [] pc = "model-called"   -> 4
      [] pc = "tools-executed" -> 5
      [] pc = "synthesized"    -> 6
      [] pc = "persisted"      -> 7
      [] pc = "failed"         -> 8

\* the assistant message of the turn is in the log, after its user message
AssistantMessageInLog ==
    \E i \in 1..Len(chat_messages) :
        /\ chat_messages[i].role = "assistant"
        /\ chat_messages[i].id > turn.message_id
        /\ chat_messages[i].content = turn.reply.message

\* what a turn at a step has behind it: the steps before, each done
StepsBehind ==
    LET rank == StepRank(turn.pc)
    IN  /\ rank \in 1..7 => UserMessageInLog
        /\ rank \in 1..1 => turn.classify_calls = 0 /\ turn.user_context = "unset"
        /\ rank \in 2..7 => turn.classify_calls = 1 /\ turn.intent \in VALID_INTENTS
        /\ rank \in 1..2 => turn.user_context = "unset" /\ turn.completions = 0
        /\ rank \in 3..7 =>
            turn.user_context = IF turn.intent = IntentChat THEN "today" ELSE "fetched"
        /\ rank \in 1..3 => turn.completions = 0 /\ turn.idx = 0
        /\ rank \in 4..7 => turn.completions >= 1
        /\ rank = 4 => turn.idx < Len(turn.tool_calls)
        /\ rank \in 5..7 => turn.idx = Len(turn.tool_calls)
        /\ rank = 5 => turn.tool_calls # <<>>
        /\ rank \in 1..6 => turn.reply.status = 0
        /\ rank = 7 => turn.reply.status = 200 /\ AssistantMessageInLog

\* a step of a turn goes to a later step, or stays in the loop of the tool
\* calls, or ends the turn; the context is fetched from the store in the
\* step after classification only, and never for chat
StepsForward ==
    /\ (turn'.pc # turn.pc /\ turn'.pc # "idle") => StepRank(turn'.pc) > StepRank(turn.pc)
    /\ turn'.pc = "idle" => turn.pc \in {"idle", "persisted", "failed"}
    /\ (turn'.pc = turn.pc /\ turn' # turn) =>
            turn.pc = "model-called" /\ turn'.idx = turn.idx + 1
    /\ (turn'.pc = "received") => turn.pc = "idle"
    /\ (turn'.pc = "classified") => turn.pc = "received"
    /\ (turn'.pc = "context-loaded") => turn.pc = "classified"
    /\ (turn'.pc = "model-called" /\ turn.pc # "model-called") =>
            turn.pc = "context-loaded"
    /\ (turn'.pc = "tools-executed") => turn.pc = "model-called"
    /\ (turn'.pc = "synthesized") => turn.pc \in {"context-loaded", "tools-executed"}
    /\ (turn'.pc = "persisted") => turn.pc \in {"tools-executed", "synthesized"}
    /\ (turn'.user_context = "fetched" /\ turn.user_context # "fetched") =>
            turn.pc = "classified" /\ turn.intent # IntentChat
    /\ (turn.pc = "classified" /\ turn'.pc = "context-loaded"
        /\ turn.intent = IntentChat) => turn'.user_context = "today"

\* C23: every turn passes through its steps in the fixed order received
\* (user message persisted), classified, context-loaded, model-called,
\* tools-executed, synthesized, persisted (assistant message stored), never
\* going back to an earlier step; the context is loaded from the store
\* exactly once when the intent is not chat, and not at all, with no store
\* read for user context, when the intent is chat.
C23_StepsInFixedOrder ==
    /\ []StepsBehind
    /\ [][StepsForward]_vars

\* a chat turn that was answered: it has no context from the store, made one
\* call of the model and no tool call, and its answer is in the log
C23_Witness ==
    /\ turn.pc = "persisted"
    /\ turn.intent = IntentChat
    /\ turn.user_context = "today"
    /\ turn.completions = 1
    /\ turn.tool_calls = <<>>
    /\ AssistantMessageInLog

(***************************************************************************)
(* SpecRace: two requests of one user for one (date, meal_type) whose      *)
(* MealStore operations run concurrently: every select, insert, update and *)
(* delete of services/meal_service.py is a step of its own, and the steps  *)
(* of the two requests interleave                                          *)
(***************************************************************************)
\* whether the table meals has a unique constraint on (user_id, date,
\* meal_type) is up to the schema, which the application does not define
UniqueKey == BOOLEAN

\* an operation in progress: its arguments, the step it is at, and what it
\* has read: the meal row, its items, the target item and the new foods
Operation(op, foods, name, new_food) ==
    [op |-> op, pc |-> "select", foods |-> foods, name |-> name, new_food |-> new_food,
     meal |-> [id |-> 0, total_calories |-> 0], items |-> <<>>, target |-> 0,
     new_foods |-> <<>>]

\* the operations a request may run, all for u1, 2024-05-01, breakfast
Operations ==
    { Operation("log", fs, NoText, NoFood) : fs \in { l \in FoodLists : Len(l) = 1 } }
    \cup { Operation("delete", <<>>, n, NoFood) : n \in FoodNames }
    \cup { Operation("update", <<>>, n, nf) : n \in FoodNames, nf \in NewFoods }

\* a step of an operation: the store and the operation after it
Stepped(db, r) == [db |-> db, r |-> r]

\* the meal row is in the table: the foreign key of meal_items holds
MealExists(db, meal_id) == \E i \in 1..Len(db.meals) : db.meals[i].id = meal_id

\* log_meal_directly, request by request of the store
log_step(db, r, unique) ==
    LET processed == processed_foods(r.foods)
        existing == SelectMeals(db, "u1", "2024-05-01", "breakfast")
    IN  CASE r.pc = "select" ->
                \* maybe_single() gives the row; it raises on several rows,
                \* which `except Exception` turns into None
                IF Len(existing) = 1
                THEN Stepped(db, [r EXCEPT !.pc = "select-items", !.meal = existing[1]])
                ELSE Stepped(db, [r EXCEPT !.pc = "insert-meal"])
          [] r.pc = "select-items" ->
                LET nf == new_foods(processed, existing_names(db, r.meal.id))
                IN  IF nf = <<>>
                    THEN Stepped(db, [r EXCEPT !.pc = "done"])
                    ELSE Stepped(db, [r EXCEPT !.pc = "insert-items", !.new_foods = nf])
          [] r.pc = "insert-items" ->
                IF MealExists(db, r.meal.id)
                THEN Stepped([db EXCEPT
                                !.meal_items = @ \o ItemRows(r.meal.id, r.new_foods,
                                                             db.nextItemId),
                                !.nextItemId = @ + Len(r.new_foods)],
                             [r EXCEPT !.pc = "update-total"])
                ELSE Stepped(db, [r EXCEPT !.pc = "raised"])
          [] r.pc = "update-total" ->
                Stepped([db EXCEPT !.meals = SetTotal(@, r.meal.id,
                                        LogTotal(r.meal, SumCalories(r.new_foods)))],
                        [r EXCEPT !.pc = "done"])
          [] r.pc = "insert-meal" ->
                IF unique /\ existing # <<>>
                THEN Stepped(db, [r EXCEPT !.pc = "raised"])
                ELSE Stepped([db EXCEPT
                                !.meals = Append(@,
                                    [id |-> db.nextMealId, user_id |-> "u1",
                                     date |-> "2024-05-01", meal_type |-> "breakfast",
                                     total_calories |-> SumCalories(processed)]),
                                !.nextMealId = @ + 1],
                             [r EXCEPT !.pc = "insert-new-items",
                                       !.meal = [id |-> db.nextMealId,
                                                 total_calories |-> SumCalories(processed)]])
          [] r.pc = "insert-new-items" ->
                IF MealExists(db, r.meal.id)
                THEN Stepped([db EXCEPT
                                !.meal_items = @ \o ItemRows(r.meal.id, processed,
                                                             db.nextItemId),
                                !.nextItemId = @ + Len(processed)],
                             [r EXCEPT !.pc = "done"])
                ELSE Stepped(db, [r EXCEPT !.pc = "raised"])

\* the select of delete_meal_data and update_meal_data: the meal with its
\* items, and the first item that matches the name
select_step(db, r, empty) ==
    LET rows == SelectMeals(db, "u1", "2024-05-01", "breakfast")
    IN  IF Len(rows) # 1
        THEN IF rows = <<>> /\ empty # "None"
             THEN Stepped(db, [r EXCEPT !.pc = "done"])
             ELSE Stepped(db, [r EXCEPT !.pc = "raised"])
        ELSE LET items == ItemsOf(db, rows[1].id)
                 target == FirstMatch(items, r.name)
             IN  IF target = 0
                 THEN Stepped(db, [r EXCEPT !.pc = "done"])
                 ELSE Stepped(db, [r EXCEPT !.pc = "write-item", !.meal = rows[1],
                                            !.items = items, !.target = target])

\* delete_meal_data with a food name, request by request of the store
delete_step(db, r, empty) ==
    CASE r.pc = "select" -> select_step(db, r, empty)
      [] r.pc = "write-item" ->
            Stepped([db EXCEPT !.meal_items = WithoutItem(@, r.items[r.target].id)],
                    [r EXCEPT !.pc = "update-total"])
      [] r.pc = "update-total" ->
            Stepped([db EXCEPT !.meals = SetTotal(@, r.meal.id,
                                            DeleteTotal(r.meal, r.items[r.target]))],
                    [r EXCEPT !.pc = IF Len(r.items) = 1 THEN "delete-meal" ELSE "done"])
      [] r.pc = "delete-meal" ->
            Stepped([db EXCEPT !.meals = WithoutMeal(@, r.meal.id),
                               !.meal_items = CascadeItems(@, r.meal.id)],
                    [r EXCEPT !.pc = "done"])

\* update_meal_data, request by request of the store
update_step(db, r, empty) ==
    CASE r.pc = "select" -> select_step(db, r, empty)
      [] r.pc = "write-item" ->
            Stepped([db EXCEPT !.meal_items =
                        [i \in 1..Len(@) |->
                            IF @[i].id = r.items[r.target].id
                            THEN UpdatedItem(@[i], r.new_food) ELSE @[i]]],
                    [r EXCEPT !.pc = "update-total"])
      [] r.pc = "update-total" ->
            Stepped([db EXCEPT !.meals = SetTotal(@, r.meal.id,
                                    UpdateTotal(r.meal, r.items[r.target], r.new_food))],
                    [r EXCEPT !.pc = "done"])

\* the stores the two requests may find: empty, or with the breakfast of an
\* earlier Log of one or of two foods
RaceStores ==
    { Store(<<>>, <<>>, 1, 1) }
    \cup { log_meal_directly(Store(<<>>, <<>>, 1, 1), "u1", "breakfast", "2024-05-01",
                             fs).db : fs \in { l \in FoodLists : Len(l) = MaxFoods } }

InitRace ==
    /\ \E db \in RaceStores :
        /\ meals = db.meals
        /\ meal_items = db.meal_items
        /\ nextMealId = db.nextMealId
        /\ nextItemId = db.nextItemId
        /\ \E unique \in UniqueKey, first \in Operations, second \in Operations :
            turn = [pc |-> "concurrent", unique |-> unique, had_meal |-> db.meals # <<>>,
                    requests |-> <<first, second>>]
    /\ chat_messages = <<>>
    /\ nextMessageId = 1

\* the request p is in an operation `op` that has a step to take
Running(p, op) ==
    /\ turn.requests[p].op = op
    /\ turn.requests[p].pc \notin {"done", "raised"}

\* the step is taken: the store and the operation of the request change
Take(p, out) ==
    /\ Apply(out)
    /\ turn' = [turn EXCEPT !.requests[p] = out.r]
    /\ UNCHANGED <<chat_messages, nextMessageId>>

LogStep ==
    \E p \in 1..2 :
        /\ Running(p, "log")
        /\ Take(p, log_step(DB, turn.requests[p], turn.unique))

DeleteStep ==
    \E p \in 1..2, empty \in MaybeSingleEmpty :
        /\ Running(p, "delete")
        /\ Take(p, delete_step(DB, turn.requests[p], empty))

UpdateStep ==
    \E p \in 1..2, empty \in MaybeSingleEmpty :
        /\ Running(p, "update")
        /\ Take(p, update_step(DB, turn.requests[p], empty))

NextRace == LogStep \/ DeleteStep \/ UpdateStep

SpecRace == InitRace /\ [][NextRace]_vars

(***************************************************************************)
(* Properties of concurrent MealStore operations                           *)
(***************************************************************************)
\* both operations have returned
BothCompleted == \A p \in 1..2 : turn.requests[p].pc = "done"

\* C24: when two mutating operations (Log, Delete by name or Update) on the
\* same (user, date, meal_type) issued by concurrent requests interleave at
\* the level of their individual store reads and writes, then once both have
\* completed the Meal's total_calories equals the sum of the calories of its
\* current items.
C24_ConcurrentTotalIsSumOfItems ==
    (turn.pc = "concurrent" /\ BothCompleted) =>
        \A i \in 1..Len(meals) :
            meals[i].total_calories = SumCalories(Items(meals[i].id))

\* C25: when two Log requests for the same (user, date, meal_type), for
\* which no Meal exists yet, run concurrently and interleave between the
\* existence check and the insert, at most one Meal row for that key exists
\* after both complete.
C25_ConcurrentLogsCreateOneMeal ==
    (/\ turn.pc = "concurrent"
     /\ ~turn.had_meal
     /\ \A p \in 1..2 : turn.requests[p].op = "log"
     /\ \A p \in 1..2 : turn.requests[p].pc \in {"done", "raised"}) =>
        Cardinality({ i \in 1..Len(meals) :
                        SameKey(meals[i], "u1", "2024-05-01", "breakfast") }) <= 1

(***************************************************************************)
(* Referential integrity of meal_items                                     *)
(***************************************************************************)
\* every row of meal_items belongs to a row of meals
ItemsReferToMeals ==
    \A j \in 1..Len(meal_items) :
        \E i \in 1..Len(meals) : meals[i].id = meal_items[j].meal_id

\* a step that takes a meal row away leaves no item row of that meal
GoneWithItems ==
    \A i \in 1..Len(meals) :
        (\A k \in 1..Len(meals') : meals'[k].id # meals[i].id) =>
            \A j \in 1..Len(meal_items') : meal_items'[j].meal_id # meals[i].id

FollowUpMade == turn.follow_up # NoFollowUp

\* the arguments of the i-th tool call are rejected by its parser
Rejected(i) ==
    LET call == turn.tool_calls[i]
    IN  \/ call.name = "log_meal" /\ IsNone(parse_log_meal_args(call.arguments))
        \/ call.name = "delete_meal" /\ IsNone(parse_delete_meal_args(call.arguments))
        \/ call.name = "update_meal" /\ IsNone(parse_update_meal_args(call.arguments))

\* C28: whenever a follow-up model call is made, it replays every tool call
\* of the first response and carries exactly one tool-role message per
\* emitted tool call, with that call's id, in emission order; calls skipped
\* as duplicates and calls whose arguments were rejected each still get
\* their message, and the action_result list has the same results in the
\* same order.
C28_FollowUpAnswersEveryToolCall ==
    FollowUpMade =>
        LET sent == turn.follow_up
        IN  /\ sent.tool_calls = turn.tool_calls
            /\ Len(sent.tool_messages) = Len(turn.tool_calls)
            /\ \A i \in 1..Len(turn.tool_calls) :
                /\ sent.tool_messages[i].role = "tool"
                /\ sent.tool_messages[i].tool_call_id = turn.tool_calls[i].id
                /\ RepeatsEarlier(i) => sent.tool_messages[i].content = Skipped
                /\ (Rejected(i) /\ ~RepeatsEarlier(i)) => sent.tool_messages[i].content = Completed
            /\ turn.pc = "persisted" =>
                turn.reply.action_result =
                    [i \in 1..Len(sent.tool_messages) |-> sent.tool_messages[i].content]

\* a turn with a follow-up whose first response had two equal log_meal
\* calls without foods: the first was rejected, the second skipped
C28_Witness ==
    /\ turn.pc = "persisted"
    /\ FollowUpMade
    /\ Len(turn.tool_calls) = 2
    /\ Rejected(1)
    /\ RepeatsEarlier(2)
    /\ turn.reply.action_result = <<Completed, Skipped>>

(***************************************************************************)
(* The assistant message of a turn                                         *)
(***************************************************************************)
\* the assistant messages of the log
AssistantMessages(msgs) == SelectSeq(msgs, LAMBDA msg : msg.role = "assistant")

\* the messages the log has taken since the user message of the turn
SinceReceived == SelectSeq(chat_messages, LAMBDA msg : msg.id > turn.message_id)

\* a turn that has completed has one assistant message in the log, the last
\* row of it, with the content of the reply, which is not empty
AnsweredOnce ==
    turn.pc = "persisted" =>
        /\ turn.reply.status = 200
        /\ ~IsEmpty(turn.reply.message)
        /\ turn.idx = Len(turn.tool_calls)
        /\ Len(SinceReceived) = 1
        /\ SinceReceived[1] = chat_messages[Len(chat_messages)]
        /\ SinceReceived[1].role = "assistant"
        /\ SinceReceived[1].content = turn.reply.message

\* an assistant message is appended by the step that completes the turn
\* only, which comes after the tool calls
AppendedOnCompletion ==
    Len(AssistantMessages(chat_messages')) > Len(AssistantMessages(chat_messages)) =>
        /\ turn.pc \in {"tools-executed", "synthesized"}
        /\ turn.idx = Len(turn.tool_calls)
        /\ turn'.pc = "persisted"
        /\ chat_messages' = Append(chat_messages, chat_messages'[Len(chat_messages')])

\* C29: every turn that completes without an exception appends exactly one
\* assistant message to the message log, after all tool executions of the
\* turn, whose content equals the message returned to the caller and is
\* never empty, whatever the model returned (empty text, no tool calls, or
\* only tool calls).
C29_OneAssistantMessagePerTurn == []AnsweredOnce /\ [][AppendedOnCompletion]_vars

\* the model returned no text and no tool call: the turn completed with the
\* fallback text, in the reply and in the last row of the log
C29_Witness ==
    /\ turn.pc = "persisted"
    /\ turn.tool_calls = <<>>
    /\ turn.completions = 1
    /\ turn.reply.message = Fallback
    /\ chat_messages[Len(chat_messages)].role = "assistant"
    /\ chat_messages[Len(chat_messages)].content = Fallback

(***************************************************************************)
(* Item names within a Meal                                                *)
(***************************************************************************)
\* C30: after any sequence of completed Log and Update operations, no Meal
\* contains two items whose names are equal ignoring case, including when
\* one Log call submits the same name twice, when the Meal is being created
\* by that call, and when Update renames an item to the name of another item
\* of the same Meal.
C30_NoTwoItemsOfOneName ==
    \A j, k \in 1..Len(meal_items) :
        (j # k /\ meal_items[j].meal_id = meal_items[k].meal_id) =>
            ~EqualIgnoringCase(meal_items[j].name, meal_items[k].name)

====
